---------------------------- MODULE Spec2Model ----------------------------
(***************************************************************************)
(* Selector-addressed tree patching (lib/tree_traversal.py,                *)
(* bundle_info.py) and the merged Patch Store (translate_tool.py).         *)
(*                                                                         *)
(* Strings are modelled as sequences of one-character strings, so that     *)
(* building a selector (f"{path}.{key}", f"{path}[{idx}]") and parsing it  *)
(* (split on ".", the regular expression of _parse_selector) are two       *)
(* different computations.                                                 *)
(*                                                                         *)
(* A tree node is a record [t, v]:                                         *)
(*   t = "str"  v = a TLA+ string          (a text leaf)                   *)
(*   t = "int"  v = an integer             (a numeric leaf)                *)
(*   t = "map"  v = a sequence of [k, v]   (a dict, in insertion order,    *)
(*                                          keys are character sequences)  *)
(*   t = "seq"  v = a sequence of nodes    (a list)                        *)
(***************************************************************************)
EXTENDS Integers, Sequences, FiniteSets, TLC

VARIABLES
    tree,      \* the object tree the resolver works on (mutated in place)
    before,    \* the tree as it was when the last call started
    lastSel,   \* selector string of the last set_by_selector call
    lastVal,   \* value of the last set_by_selector call
    ret,       \* what the last call did: "none" | "true" | "false" | "raised"
    lastPath,  \* where the extractor read the text whose selector the last
               \* call used (<<>> when the selector was not an extracted one)
    repeated,  \* the last call had the selector and value of the call before
    calls,     \* number of set_by_selector calls made so far
    yamlFile,  \* patches/addresses.txt as yaml.safe_load gives it
    xlsxSheet, \* the "Patch addresses" sheet of translate.xlsx
    infoSheet, \* the "Patch addresses" sheet of bundle_info.xlsx
    merged,    \* the dict `merged` of load_patches_from_files
    phase,     \* how far load_patches_from_files got: "start" | "yaml" |
               \* "xlsx" | "done", or "raised" when an exception left it
    dumps,     \* number of times dump_patches_from_files wrote the file
    lastDoc,   \* the document the last dump wrote to addresses.txt
    prevDoc,   \* the document the dump before it wrote
    prevMerged, \* the merged map the last dump wrote
    folder_path,       \* the argument of pack_translated_files, a string
    fs,                \* the files on disk: path -> content of the container
    fs0,               \* the files as they were before the first run
    fsRun,             \* the files as they were when the current run began
    patches,           \* what load_patches_from_files returned
    runs,              \* number of runs of pack_translated_files begun
    pc,                \* where the run is: "idle" | "loop" | "scan" |
                       \* "finalize" | "save"
    pending,           \* containers of bundle_paths not yet taken
    bundle_path,       \* the container being processed
    bundle,            \* its objects as UnityPy holds them in memory
    obj_i,             \* index of the next object of the scan
    bundle_modified,   \* the flag of that name
    all_patch_entries, \* the set of that name
    mutated,           \* containers in which this run replaced a text or
                       \* texture, or set a patch value
    succeeded,         \* keys for which set_by_selector returned True
    typetree_saves,    \* save_typetree calls per object of the container
    set_oks,           \* successful set_by_selector calls per object
    visited,           \* objects <<container, index>> the scan reached
    skipped,           \* objects whose read or write failed in this run
    ended,             \* containers whose processing ended, in order
    failed,            \* containers whose processing raised in this run
    reports,           \* number of unresolved reports printed
    applied_at,        \* <<key, container, object>> set_by_selector set in this run
    saved_bundles,     \* containers bundle.save wrote in this run
    mapping,           \* the argument of validate_bin_patch_map
    bin_exit,          \* "none" | "returned" | "exit"
    byte_map,          \* the dict validate_bin_patch_map returned
    wb_sheetnames,     \* wb.sheetnames: the titles of the workbook's sheets
    base_sheet_name,   \* the argument of the last _add_sheet_with_parsed_data
    existing,          \* wb.sheetnames before that call
    sheet_name,        \* what the call returned
    created_title,     \* the title of the sheet the call created
    sheet_calls,       \* number of calls of _add_sheet_with_parsed_data
    file_path_data,    \* perform_binary_patch: the file at file_path
    backup_data,       \* the file at file_path + ".bak"
    bp_mapping,        \* the mapping of the run of perform_binary_patch
    bp_pc,             \* "idle" | "backup" | "write" | "exit"
    bp_data,           \* `data`: the bytes in memory, read, then replaced
    read_data,         \* the bytes the run read from the file
    total_replacements, \* the count of the run
    bp_runs,           \* number of runs of perform_binary_patch started
    file_writes,       \* number of times the file was written
    backup_writes,     \* number of times the backup was written
    df_old,            \* merge_trans_sheet: the sheet of the old workbook
    df_new,            \* the sheet of the new workbook
    final_df,          \* the sheet merge_trans_sheet returned
    trans_pc           \* "start" | "returned"

resolverVars == <<tree, before, lastSel, lastVal, ret, lastPath, repeated, calls>>
storeVars == <<yamlFile, xlsxSheet, infoSheet, merged, phase, dumps, lastDoc,
               prevDoc, prevMerged>>
packVars == <<folder_path, fs, fs0, fsRun, patches, runs, pc, pending,
              bundle_path, bundle, obj_i, bundle_modified, all_patch_entries,
              mutated, succeeded, typetree_saves, set_oks, visited, skipped,
              ended, failed, reports, applied_at, saved_bundles>>
binVars == <<mapping, bin_exit, byte_map>>
sheetVars == <<wb_sheetnames, base_sheet_name, existing, sheet_name,
               created_title, sheet_calls>>
patchVars == <<file_path_data, backup_data, bp_mapping, bp_pc, bp_data, read_data,
               total_replacements, bp_runs, file_writes, backup_writes>>
transVars == <<df_old, df_new, final_df, trans_pc>>
restVars == <<sheetVars, patchVars, transVars>>
vars == <<resolverVars, storeVars, packVars, binVars, restVars>>

\* the variables of a part of the program that a specification leaves out
ResolverIdle ==
    /\ tree = <<>> /\ before = <<>> /\ lastSel = <<>> /\ lastVal = <<>>
    /\ ret = "none" /\ lastPath = <<>> /\ repeated = FALSE /\ calls = 0

StoreIdle ==
    /\ yamlFile = <<>> /\ xlsxSheet = <<>> /\ infoSheet = <<>>
    /\ merged = <<>> /\ phase = "start"
    /\ dumps = 0 /\ lastDoc = <<>> /\ prevDoc = <<>> /\ prevMerged = <<>>

PackIdle ==
    /\ folder_path = <<>> /\ fs = <<>> /\ fs0 = <<>> /\ fsRun = <<>>
    /\ patches = <<>> /\ runs = 0 /\ pc = "idle" /\ pending = {}
    /\ bundle_path = <<>> /\ bundle = <<>> /\ obj_i = 0
    /\ bundle_modified = FALSE /\ all_patch_entries = {} /\ mutated = {}
    /\ succeeded = {} /\ typetree_saves = <<>> /\ set_oks = <<>>
    /\ visited = {} /\ skipped = {} /\ ended = <<>> /\ failed = {}
    /\ reports = 0 /\ applied_at = {} /\ saved_bundles = {}

BinIdle == mapping = <<>> /\ bin_exit = "none" /\ byte_map = <<>>

SheetIdle ==
    /\ wb_sheetnames = <<>> /\ base_sheet_name = <<>> /\ existing = {}
    /\ sheet_name = <<>> /\ created_title = <<>> /\ sheet_calls = 0

PatchIdle ==
    /\ file_path_data = <<>> /\ backup_data = <<>> /\ bp_mapping = <<>>
    /\ bp_pc = "idle" /\ bp_data = <<>> /\ read_data = <<>>
    /\ total_replacements = 0 /\ bp_runs = 0 /\ file_writes = 0
    /\ backup_writes = 0

TransIdle ==
    /\ df_old = <<>> /\ df_new = <<>> /\ final_df = <<>>
    /\ trans_pc = "start"

RestIdle == SheetIdle /\ PatchIdle /\ TransIdle

----------------------------------------------------------------------------
(* Characters and strings *)

Digits == <<"0", "1", "2", "3", "4", "5", "6", "7", "8", "9">>

DigitChars == {Digits[i] : i \in 1..10}

LetterChars ==
    {"a", "b", "c", "d", "e", "f", "g", "h", "i", "j", "k", "l", "m",
     "n", "o", "p", "q", "r", "s", "t", "u", "v", "w", "x", "y", "z",
     "A", "B", "C", "D", "E", "F", "G", "H", "I", "J", "K", "L", "M",
     "N", "O", "P", "Q", "R", "S", "T", "U", "V", "W", "X", "Y", "Z"}

\* the class \w of the regular expressions of _parse_selector
IsWordChar(c) == c \in LetterChars \cup DigitChars \cup {"_"}

\* the class \d
IsDigitChar(c) == c \in DigitChars

DigitValue(c) == CHOOSE d \in 0..9 : Digits[d + 1] = c

\* int(s) for a string of decimal digits
RECURSIVE ParseInt(_)
ParseInt(s) ==
    IF s = <<>> THEN 0
    ELSE 10 * ParseInt(SubSeq(s, 1, Len(s) - 1)) + DigitValue(s[Len(s)])

\* str(n) for n >= 0, as f"{idx}" formats a list index
RECURSIVE FormatInt(_)
FormatInt(n) ==
    IF n < 10 THEN <<Digits[n + 1]>>
    ELSE FormatInt(n \div 10) \o <<Digits[(n % 10) + 1]>>

\* str.split(sep) for a one-character separator: always at least one part
RECURSIVE SplitOn(_, _)
SplitOn(s, sep) ==
    IF \A i \in 1..Len(s) : s[i] # sep THEN <<s>>
    ELSE LET p == CHOOSE i \in 1..Len(s) :
                      s[i] = sep /\ \A j \in 1..(i - 1) : s[j] # sep
         IN  <<SubSeq(s, 1, p - 1)>> \o SplitOn(SubSeq(s, p + 1, Len(s)), sep)

----------------------------------------------------------------------------
(* lib/tree_traversal.py: _parse_selector *)

\* length of the longest prefix of s made of \w characters (the greedy \w+)
RECURSIVE WordPrefixLen(_)
WordPrefixLen(s) ==
    IF s = <<>> \/ ~IsWordChar(s[1]) THEN 0
    ELSE 1 + WordPrefixLen(Tail(s))

\* length of the longest prefix of s made of \d characters
RECURSIVE DigitPrefixLen(_)
DigitPrefixLen(s) ==
    IF s = <<>> \/ ~IsDigitChar(s[1]) THEN 0
    ELSE 1 + DigitPrefixLen(Tail(s))

\* s matches (\[\d+])* up to its end
RECURSIVE IsIndexRun(_)
IsIndexRun(s) ==
    IF s = <<>> THEN TRUE
    ELSE LET n == DigitPrefixLen(Tail(s))
         IN  /\ s[1] = "["
             /\ n >= 1
             /\ Len(s) >= n + 2
             /\ s[n + 2] = "]"
             /\ IsIndexRun(SubSeq(s, n + 3, Len(s)))

\* [int(mm.group(1)) for mm in re.finditer(r"\[(\d+)]", idxs_str)] on a
\* string that IsIndexRun accepts
RECURSIVE IndexRun(_)
IndexRun(s) ==
    IF s = <<>> THEN <<>>
    ELSE LET n == DigitPrefixLen(Tail(s))
         IN  <<ParseInt(SubSeq(s, 2, n + 1))>> \o IndexRun(SubSeq(s, n + 3, Len(s)))

\* re.match(r"^(\w+)((\[\d+])*)$", part) succeeds
PartMatches(part) ==
    LET w == WordPrefixLen(part)
    IN  w >= 1 /\ IsIndexRun(SubSeq(part, w + 1, Len(part)))

\* the variant of the expression that accepts one index at most
\* (r"^(\w+)(\[(\d+)])?$"): a second index makes the part unmatched
ParsePartOneIndex(part) ==
    LET w == WordPrefixLen(part)
        rest == SubSeq(part, w + 1, Len(part))
    IN  IF w >= 1 /\ IsIndexRun(rest) /\ Len(IndexRun(rest)) <= 1
        THEN [name |-> SubSeq(part, 1, w), idxs |-> IndexRun(rest)]
        ELSE [name |-> part, idxs |-> <<>>]

\* one token (name, idxs) of _parse_selector
ParsePart(part) ==
    LET w == WordPrefixLen(part)
    IN  IF PartMatches(part)
        THEN [name |-> SubSeq(part, 1, w),
              idxs |-> IndexRun(SubSeq(part, w + 1, Len(part)))]
        ELSE [name |-> part, idxs |-> <<>>]

_parse_selector(selector) ==
    IF selector = <<>> THEN <<>>
    ELSE LET parts == SplitOn(selector, ".")
         IN  [i \in 1..Len(parts) |-> ParsePart(parts[i])]

----------------------------------------------------------------------------
(* Trees *)

StrLeaf(s) == [t |-> "str", v |-> s]
IntLeaf(n) == [t |-> "int", v |-> n]
MapNode(pairs) == [t |-> "map", v |-> pairs]
SeqNode(elems) == [t |-> "seq", v |-> elems]
Pair(key, node) == [k |-> key, v |-> node]

\* isinstance(node, dict), isinstance(node, list)
IsDict(node) == node.t = "map"
IsList(node) == node.t = "seq"

\* `name in d` for a dict d
HasKey(node, name) == \E i \in 1..Len(node.v) : node.v[i].k = name

KeyIndex(node, name) == CHOOSE i \in 1..Len(node.v) : node.v[i].k = name

\* A step of a walk: a field access or a list subscript (0-based, as in
\* the code).
KeyStep(name) == [kind |-> "key", at |-> name]
IdxStep(idx) == [kind |-> "idx", at |-> idx]

\* cur[name], cur[idx] succeed (raise no KeyError, IndexError, TypeError)
CanSubscript(cur, step) ==
    IF step.kind = "key"
    THEN IsDict(cur) /\ HasKey(cur, step.at)
    ELSE IsList(cur) /\ step.at >= -Len(cur.v) /\ step.at < Len(cur.v)

\* cur[name], cur[idx] where CanSubscript
Subscript(cur, step) ==
    IF step.kind = "key" THEN cur.v[KeyIndex(cur, step.at)].v
    ELSE cur.v[(IF step.at < 0 THEN step.at + Len(cur.v) ELSE step.at) + 1]

\* a write that inserts into a list (parent.insert(idx, value)) where the
\* code assigns
AssignInsert(parent, step, value) ==
    IF step.kind = "key"
    THEN MapNode([parent.v EXCEPT ![KeyIndex(parent, step.at)].v = value])
    ELSE SeqNode(SubSeq(parent.v, 1, step.at) \o <<value>>
                 \o SubSeq(parent.v, step.at + 1, Len(parent.v)))

\* parent[key_or_index] = value as a new parent
Assign(parent, step, value) ==
    IF step.kind = "key"
    THEN MapNode([parent.v EXCEPT ![KeyIndex(parent, step.at)].v = value])
    ELSE SeqNode([parent.v EXCEPT ![step.at + 1] = value])

\* the tree `root` after the node reached by `steps` was assigned `value`
\* through its parent (the parent is mutated in place, so every ancestor
\* sees the change)
RECURSIVE PutAt(_, _, _)
PutAt(root, steps, value) ==
    IF Len(steps) = 1 THEN Assign(root, steps[1], value)
    ELSE Assign(root, steps[1],
                PutAt(Subscript(root, steps[1]), Tail(steps), value))

----------------------------------------------------------------------------
(* lib/tree_traversal.py: set_by_selector *)

\* The accesses a token list asks for, in order: for each token the field,
\* then each of its indices (the two nested loops of lines 28-46).
RECURSIVE IdxSteps(_)
IdxSteps(idxs) ==
    IF idxs = <<>> THEN <<>>
    ELSE <<IdxStep(Head(idxs))>> \o IdxSteps(Tail(idxs))

RECURSIVE TokenSteps(_)
TokenSteps(tokens) ==
    IF tokens = <<>> THEN <<>>
    ELSE <<KeyStep(Head(tokens).name)>> \o IdxSteps(Head(tokens).idxs)
         \o TokenSteps(Tail(tokens))

\* a guard that forgets the membership test: any dict passes
FieldGuardNoMembership(cur, name) == IsDict(cur)

\* line 30, negated: the walk goes on into the field
FieldGuard(cur, name) == IsDict(cur) /\ HasKey(cur, name)

\* a guard with the bound off by one: idx = len(cur) passes
IndexGuardOffByOne(cur, idx) == IsList(cur) /\ ~(idx < 0 \/ idx > Len(cur.v))

\* lines 39-42, negated: the walk goes on into the element
IndexGuard(cur, idx) == IsList(cur) /\ ~(idx < 0 \/ idx >= Len(cur.v))

StepGuard(cur, step) ==
    IF step.kind = "key" THEN FieldGuard(cur, step.at)
    ELSE IndexGuard(cur, step.at)

\* The loop of lines 28-46 from node `cur` on: "ok" when every access is
\* let through and succeeds, "false" at the first guard that returns
\* False, "raised" when an access a guard let through raises.
RECURSIVE Walk(_, _)
Walk(cur, steps) ==
    IF steps = <<>> THEN "ok"
    ELSE IF ~StepGuard(cur, Head(steps)) THEN "false"
    ELSE IF ~CanSubscript(cur, Head(steps)) THEN "raised"
    ELSE Walk(Subscript(cur, Head(steps)), Tail(steps))

\* a final write that converts the value to its text (str(value))
WriteValueCoerced(value) ==
    IF value.t = "str" THEN value ELSE StrLeaf("<object>")

\* lines 56 and 61 store `value` itself
WriteValue(value) == value

\* set_by_selector(root, selector, value): what it returns ("true",
\* "false", or "raised" for an exception) and the tree it leaves
set_by_selector(root, selector, value) ==
    LET tokens == _parse_selector(selector)
        steps == TokenSteps(tokens)
        walk == IF tokens = <<>> THEN "false" ELSE Walk(root, steps)
    IN  IF walk = "ok"
        THEN [ret |-> "true", tree |-> PutAt(root, steps, WriteValue(value))]
        ELSE [ret |-> walk, tree |-> root]

----------------------------------------------------------------------------
(* bundle_info.py: extract_localized_texts *)

K_items == <<"_", "i", "t", "e", "m", "s">>
K_taggedText == <<"_", "t", "a", "g", "g", "e", "d", "T", "e", "x", "t">>
K_locale == <<"_", "l", "o", "c", "a", "l", "e">>
K_text == <<"_", "t", "e", "x", "t">>

\* {text_entry["_locale"]: text_entry["_text"]}.get(code, ""), for a
\* `_locale` that is a leaf
LocaleGet(text_entry, code) ==
    LET locale == Subscript(text_entry, KeyStep(K_locale))
    IN  IF locale.t = "int" /\ locale.v = code
        THEN Subscript(text_entry, KeyStep(K_text))
        ELSE StrLeaf("")

\* lines 75-81: the loop over the entries of one `_taggedText` list, from
\* the 0-based index t_idx on.  A record carries, beside the tuple
\* (selector, original, chinese) of the code, the place `path` of the
\* `_text` leaf the tuple was read from.
RECURSIVE ExtractTagged(_, _, _, _)
ExtractTagged(tagged_text, t_idx, item_path, here) ==
    IF t_idx >= Len(tagged_text.v) THEN <<>>
    ELSE LET text_entry == tagged_text.v[t_idx + 1]
             found ==
                 IF /\ IsDict(text_entry)
                    /\ HasKey(text_entry, K_locale)
                    /\ HasKey(text_entry, K_text)
                 THEN <<[selector |-> item_path \o <<".">> \o K_taggedText
                                      \o <<"[">> \o FormatInt(t_idx)
                                      \o <<"]", ".">> \o K_text,
                         original |-> LocaleGet(text_entry, 0),
                         chinese |-> LocaleGet(text_entry, 2),
                         path |-> here \o <<KeyStep(K_taggedText),
                                            IdxStep(t_idx), KeyStep(K_text)>>]>>
                 ELSE <<>>
         IN  found \o ExtractTagged(tagged_text, t_idx + 1, item_path, here)

RECURSIVE extract_localized_texts(_, _, _)
RECURSIVE ExtractDictItems(_, _, _, _)
RECURSIVE ExtractItemsList(_, _, _, _)
RECURSIVE ExtractList(_, _, _, _)

\* lines 67-84: the loop over tree.items(), from the i-th pair on
ExtractDictItems(pairs, i, base_path, here) ==
    IF i > Len(pairs) THEN <<>>
    ELSE LET key == pairs[i].k
             value == pairs[i].v
             new_path == IF base_path # <<>> THEN base_path \o <<".">> \o key
                         ELSE key
             there == here \o <<KeyStep(key)>>
         IN  (IF key = K_items /\ IsList(value)
              THEN ExtractItemsList(value, 0, new_path, there)
              ELSE extract_localized_texts(value, new_path, there))
             \o ExtractDictItems(pairs, i + 1, base_path, here)

\* lines 70-82: the loop over the elements of an `_items` list
ExtractItemsList(value, idx, new_path, here) ==
    IF idx >= Len(value.v) THEN <<>>
    ELSE LET item == value.v[idx + 1]
             item_path == new_path \o <<"[">> \o FormatInt(idx) \o <<"]">>
             there == here \o <<IdxStep(idx)>>
             tagged ==
                 IF IsDict(item) /\ HasKey(item, K_taggedText)
                 THEN LET tagged_text == Subscript(item, KeyStep(K_taggedText))
                      IN  IF IsList(tagged_text)
                          THEN ExtractTagged(tagged_text, 0, item_path, there)
                          ELSE <<>>
                 ELSE <<>>
         IN  tagged \o extract_localized_texts(item, item_path, there)
             \o ExtractItemsList(value, idx + 1, new_path, here)

\* lines 85-88: the loop over the elements of a list
ExtractList(tree_, idx, base_path, here) ==
    IF idx >= Len(tree_.v) THEN <<>>
    ELSE extract_localized_texts(
             tree_.v[idx + 1],
             base_path \o <<"[">> \o FormatInt(idx) \o <<"]">>,
             here \o <<IdxStep(idx)>>)
         \o ExtractList(tree_, idx + 1, base_path, here)

\* extract_localized_texts(tree, base_path); `here` is the place of
\* `tree_` in the whole tree
extract_localized_texts(tree_, base_path, here) ==
    IF IsDict(tree_) THEN ExtractDictItems(tree_.v, 1, base_path, here)
    ELSE IF IsList(tree_) THEN ExtractList(tree_, 0, base_path, here)
    ELSE <<>>

\* extract_localized_texts(tree) as get_extracted_texts calls it
Extracted(tree_) == extract_localized_texts(tree_, <<>>, <<>>)

----------------------------------------------------------------------------
(* translate_tool.py: load_patches_from_files *)

\* What a spreadsheet cell or a YAML scalar holds: nothing, a text (a
\* sequence of characters) or a non-negative whole number.
NoneCell == [t |-> "none", v |-> <<>>]
TextCell(chars) == [t |-> "text", v |-> chars]
NumCell(n) == [t |-> "num", v |-> n]

\* str.strip(): blanks removed at both ends
RECURSIVE LStrip(_)
LStrip(chars) ==
    IF chars # <<>> /\ chars[1] = " " THEN LStrip(Tail(chars)) ELSE chars

RECURSIVE RStrip(_)
RStrip(chars) ==
    IF chars # <<>> /\ chars[Len(chars)] = " "
    THEN RStrip(SubSeq(chars, 1, Len(chars) - 1))
    ELSE chars

Strip(chars) == RStrip(LStrip(chars))

\* str(x), for an x that is not None
StrOf(cell) == IF cell.t = "num" THEN FormatInt(cell.v) ELSE cell.v

\* (cell.value or '').strip(): None, '' and 0 give ''; a text is stripped;
\* any other number has no strip() and raises AttributeError
CellStripped(cell) ==
    IF cell.t = "none" \/ (cell.t = "num" /\ cell.v = 0)
    THEN [raised |-> FALSE, text |-> <<>>]
    ELSE IF cell.t = "num" THEN [raised |-> TRUE, text |-> <<>>]
    ELSE [raised |-> FALSE, text |-> Strip(cell.v)]

\* (str(val) if val is not None else '').strip()
ValueText(cell) == IF cell.t = "none" THEN <<>> ELSE Strip(StrOf(cell))

\* an upsert that appends without looking for the selector
MergeEntryAlwaysAppend(store, suffix, pid, selector, value) ==
    IF suffix = <<>> \/ pid = <<>> \/ selector = <<>> THEN store
    ELSE LET id_map == IF suffix \in DOMAIN store THEN store[suffix] ELSE <<>>
             entries == IF pid \in DOMAIN id_map THEN id_map[pid] ELSE <<>>
         IN  (suffix :> ((pid :> Append(entries,
                                        [object_selector |-> selector,
                                         patched_value |-> value]))
                         @@ id_map)) @@ store

\* an upsert that keeps the value of an entry it finds
MergeEntryKeepFirst(store, suffix, pid, selector, value) ==
    IF suffix = <<>> \/ pid = <<>> \/ selector = <<>> THEN store
    ELSE LET id_map == IF suffix \in DOMAIN store THEN store[suffix] ELSE <<>>
             entries == IF pid \in DOMAIN id_map THEN id_map[pid] ELSE <<>>
             found == \E i \in 1..Len(entries) :
                          entries[i].object_selector = selector
         IN  (suffix :> ((pid :> IF found THEN entries
                                 ELSE Append(entries,
                                             [object_selector |-> selector,
                                              patched_value |-> value]))
                         @@ id_map)) @@ store

\* an upsert that takes a found entry out and appends it anew
MergeEntryMoveToEnd(store, suffix, pid, selector, value) ==
    IF suffix = <<>> \/ pid = <<>> \/ selector = <<>> THEN store
    ELSE LET id_map == IF suffix \in DOMAIN store THEN store[suffix] ELSE <<>>
             entries == IF pid \in DOMAIN id_map THEN id_map[pid] ELSE <<>>
             others == SelectSeq(entries,
                                 LAMBDA e : e.object_selector # selector)
         IN  (suffix :> ((pid :> Append(others,
                                        [object_selector |-> selector,
                                         patched_value |-> value]))
                         @@ id_map)) @@ store

\* _merge_entry(store, suffix, pid, selector, value), lines 80-90; `pid`
\* is a text already, so that str(pid) is pid.  A dict is a function whose
\* domain is its set of keys, <<>> the empty dict.
_merge_entry(store, suffix, pid, selector, value) ==
    IF suffix = <<>> \/ pid = <<>> \/ selector = <<>> THEN store
    ELSE LET id_map == IF suffix \in DOMAIN store THEN store[suffix] ELSE <<>>
             entries == IF pid \in DOMAIN id_map THEN id_map[pid] ELSE <<>>
             found == \E i \in 1..Len(entries) :
                          entries[i].object_selector = selector
             first == CHOOSE i \in 1..Len(entries) :
                          /\ entries[i].object_selector = selector
                          /\ \A j \in 1..(i - 1) :
                                 entries[j].object_selector # selector
         IN  (suffix :> ((pid :> IF found
                                 THEN [entries EXCEPT
                                           ![first].patched_value = value]
                                 ELSE Append(entries,
                                             [object_selector |-> selector,
                                              patched_value |-> value]))
                         @@ id_map)) @@ store

\* A record a source hands to _merge_entry.
Record(suffix, pid, selector, value) ==
    [suffix |-> suffix, pid |-> pid, selector |-> selector, value |-> value]

\* lines 110-116: the records of one list of entries of the YAML file
RECURSIVE YamlEntryRecords(_, _, _)
YamlEntryRecords(suf, pid_str, entries) ==
    IF entries = <<>> THEN <<>>
    ELSE LET ent == Head(entries)
         IN  (IF ent.object_selector.t # "none"
              THEN <<Record(suf, pid_str, ent.object_selector.v,
                            ent.patched_value)>>
              ELSE <<>>)
             \o YamlEntryRecords(suf, pid_str, Tail(entries))

\* lines 101-116: the records of the YAML file, group after group; a group
\* is one (suffix, path id) of the file with its list of entries, and
\* pid_str = str(pid)
RECURSIVE YamlRecords(_)
YamlRecords(groups) ==
    IF groups = <<>> THEN <<>>
    ELSE LET g == Head(groups)
         IN  YamlEntryRecords(g.suffix, StrOf(g.pid), g.entries)
             \o YamlRecords(Tail(groups))

\* a row read with the Original cell taken before the Translated cell
RowOutcomePrefersOriginal(row) ==
    LET suf == CellStripped(row.suffix)
        pid == CellStripped(row.pathid)
        selector == CellStripped(row.selector)
        val_t == ValueText(row.translated)
        val_o == ValueText(row.original)
        value == IF val_o # <<>> THEN val_o ELSE val_t
    IN  IF suf.raised \/ pid.raised \/ selector.raised
        THEN [kind |-> "raised"]
        ELSE IF suf.text = <<>> \/ pid.text = <<>> \/ selector.text = <<>>
        THEN [kind |-> "skipped"]
        ELSE IF value = <<>> THEN [kind |-> "skipped"]
        ELSE [kind |-> "record",
              record |-> Record(suf.text, pid.text, selector.text,
                                TextCell(value))]

\* lines 149-161: what one row of a sheet gives: "raised" (a cell that is
\* a number has no strip()), "skipped" (continue) or a record
RowOutcome(row) ==
    LET suf == CellStripped(row.suffix)
        pid == CellStripped(row.pathid)
        selector == CellStripped(row.selector)
        val_t == ValueText(row.translated)
        val_o == ValueText(row.original)
        value == IF val_t # <<>> THEN val_t ELSE val_o
    IN  IF suf.raised \/ pid.raised \/ selector.raised
        THEN [kind |-> "raised"]
        ELSE IF suf.text = <<>> \/ pid.text = <<>> \/ selector.text = <<>>
        THEN [kind |-> "skipped"]
        ELSE IF value = <<>> THEN [kind |-> "skipped"]
        ELSE [kind |-> "record",
              record |-> Record(suf.text, pid.text, selector.text,
                                TextCell(value))]

\* the rows of a sheet up to the first that raises
RECURSIVE RowsBeforeRaise(_)
RowsBeforeRaise(rows) ==
    IF rows = <<>> \/ RowOutcome(Head(rows)).kind = "raised" THEN <<>>
    ELSE <<Head(rows)>> \o RowsBeforeRaise(Tail(rows))

\* the records of the rows of a sheet, in row order
RECURSIVE RowRecords(_)
RowRecords(rows) ==
    IF rows = <<>> THEN <<>>
    ELSE (IF RowOutcome(Head(rows)).kind = "record"
          THEN <<RowOutcome(Head(rows)).record>>
          ELSE <<>>)
         \o RowRecords(Tail(rows))

LowerLetters == <<"a", "b", "c", "d", "e", "f", "g", "h", "i", "j", "k", "l", "m", "n", "o", "p", "q", "r", "s", "t", "u", "v", "w", "x", "y", "z">>
UpperLetters == <<"A", "B", "C", "D", "E", "F", "G", "H", "I", "J", "K", "L", "M", "N", "O", "P", "Q", "R", "S", "T", "U", "V", "W", "X", "Y", "Z">>

\* str.lower() for one character and for a string
Lower(c) ==
    IF \E i \in 1..Len(UpperLetters) : UpperLetters[i] = c
    THEN LowerLetters[CHOOSE i \in 1..Len(UpperLetters) : UpperLetters[i] = c]
    ELSE c

LowerAll(chars) == [i \in 1..Len(chars) |-> Lower(chars[i])]

\* the column names _gather_from_workbook looks for (lines 139, 145, 146)
Col_suffix == <<"b", "u", "n", "d", "l", "e", " ", "p", "a", "t", "h", " ", "s", "u", "f", "f", "i", "x">>
Col_pathid == <<"p", "a", "t", "h", "i", "d">>
Col_selector == <<"o", "b", "j", "e", "c", "t", " ", "s", "e", "l", "e", "c", "t", "o", "r">>
Col_original == <<"o", "r", "i", "g", "i", "n", "a", "l">>
Col_translated == <<"t", "r", "a", "n", "s", "l", "a", "t", "e", "d">>
needed == {Col_suffix, Col_pathid, Col_selector}

\* line 137: (cell.value or '').strip() of a header cell raises for a
\* cell that holds a number
HeaderRaises(headers) ==
    \E c \in 1..Len(headers) : CellStripped(headers[c]).raised

\* line 138: the keys of name_to_idx, (h or '').strip().lower() for every
\* header h
name_to_idx(headers) ==
    {LowerAll(Strip(CellStripped(headers[c]).text)) : c \in 1..Len(headers)}

\* lines 122-141: the workbook exists, loads, has the sheet, its header
\* row can be read and has the three needed columns
SheetUsable(sheet) ==
    /\ sheet.status = "ok"
    /\ ~HeaderRaises(sheet.headers)
    /\ needed \subseteq name_to_idx(sheet.headers)

\* lines 154-155: the cells of a row as the loop reads them: without the
\* column `translated` or `original`, None stands for the cell
VisibleRow(sheet, row) ==
    [row EXCEPT
        !.translated = IF Col_translated \in name_to_idx(sheet.headers)
                       THEN @ ELSE NoneCell,
        !.original = IF Col_original \in name_to_idx(sheet.headers)
                     THEN @ ELSE NoneCell]

VisibleRows(sheet) ==
    [r \in 1..Len(sheet.rows) |-> VisibleRow(sheet, sheet.rows[r])]

\* the records _gather_from_workbook merges before it returns or raises
SheetRecords(sheet) ==
    IF SheetUsable(sheet) THEN RowRecords(RowsBeforeRaise(VisibleRows(sheet)))
    ELSE <<>>

\* _gather_from_workbook leaves by an exception: of the header row (line
\* 137) or of a row (lines 149-151)
SheetRaises(sheet) ==
    /\ sheet.status = "ok"
    /\ \/ HeaderRaises(sheet.headers)
       \/ /\ SheetUsable(sheet)
          /\ \E i \in 1..Len(sheet.rows) :
                 RowOutcome(sheet.rows[i]).kind = "raised"

\* _merge_entry applied to each record in turn
RECURSIVE MergeRecords(_, _)
MergeRecords(store, records) ==
    IF records = <<>> THEN store
    ELSE MergeRecords(_merge_entry(store, Head(records).suffix,
                                 Head(records).pid, Head(records).selector,
                                 Head(records).value),
                      Tail(records))

\* load_patches_from_files() for the three sources: the merged dict, or
\* an exception
load_patches_from_files(yaml, xlsx, info) ==
    LET m1 == MergeRecords(<<>>, YamlRecords(yaml))
        m2 == MergeRecords(m1, SheetRecords(xlsx))
        m3 == MergeRecords(m2, SheetRecords(info))
    IN  IF SheetRaises(xlsx) \/ SheetRaises(info)
        THEN [raised |-> TRUE, merged |-> <<>>]
        ELSE [raised |-> FALSE, merged |-> m3]

----------------------------------------------------------------------------
(* The inputs the model draws from *)

MaxCalls == 2     \* set_by_selector calls in one run

K_a == <<"a">>
K_b == <<"b">>
K_dotted == <<"a", ".", "b">>
K_backing == <<"<", "a", ">">>    \* as in <a>k__BackingField

Hello == StrLeaf("Hello")
Seven == IntLeaf(7)

\* the values a patch carries: a text or, from the YAML file, any value
TextValue == StrLeaf("Xin chao")
DictValue == MapNode(<<Pair(K_a, StrLeaf("Xin chao"))>>)

\* small subtrees over the fields a and b
SubTrees ==
    {Hello, Seven, MapNode(<<>>), MapNode(<<Pair(K_a, Hello)>>),
     MapNode(<<Pair(K_a, Hello), Pair(K_b, Seven)>>),
     SeqNode(<<>>), SeqNode(<<Hello>>), SeqNode(<<Hello, Seven>>),
     SeqNode(<<MapNode(<<Pair(K_a, Hello)>>)>>),
     SeqNode(<<SeqNode(<<Hello>>)>>)}

GenericTrees ==
    {MapNode(<<Pair(K_a, s)>>) : s \in SubTrees}
    \cup {MapNode(<<Pair(K_a, s), Pair(K_b, Hello)>>) :
             s \in {Hello, SeqNode(<<Hello, Seven>>)}}
    \cup {Hello, SeqNode(<<MapNode(<<Pair(K_a, Hello)>>)>>)}

\* one entry of a locale group, and things found in its place
Entry(locale, text) ==
    MapNode(<<Pair(K_locale, IntLeaf(locale)), Pair(K_text, StrLeaf(text))>>)

Entries ==
    {Entry(0, "Hello"), Entry(2, "Ni hao"), Entry(5, "Other"), Entry(0, ""),
     MapNode(<<Pair(K_text, Hello)>>)}

\* `_taggedText` lists of one and of two entries
Groups ==
    {<<e>> : e \in Entries} \cup {<<Entry(0, "Hello"), e>> : e \in Entries}

Item(group) == MapNode(<<Pair(K_taggedText, SeqNode(group))>>)

ItemsDict(items) == MapNode(<<Pair(K_items, SeqNode(items))>>)

\* the tree of scenario 1 of the specification (section 8)
Scenario1 == ItemsDict(<<Item(<<Entry(0, "Hello"), Entry(2, "Ni hao")>>)>>)

\* a tree whose `_items` has length 2 (scenario 3)
Scenario3 ==
    ItemsDict(<<MapNode(<<Pair(K_text, Hello)>>),
                MapNode(<<Pair(K_text, Hello)>>)>>)

\* the places an `_items` dict is found at: the root, a field, an element
\* of a root list, an element of a list of lists, a field with a dot, an
\* element of a field whose name is not a word
Placed(d) ==
    {d,
     MapNode(<<Pair(K_a, d)>>),
     SeqNode(<<d>>),
     MapNode(<<Pair(K_a, SeqNode(<<SeqNode(<<Hello, d>>)>>))>>),
     MapNode(<<Pair(K_dotted, d)>>),
     MapNode(<<Pair(K_backing, SeqNode(<<d>>))>>)}

LocalizedTrees ==
    {ItemsDict(<<Item(g)>>) : g \in Groups}
    \cup Placed(Scenario1)
    \cup Placed(ItemsDict(<<Hello, Item(<<Entry(2, "Ni hao")>>)>>))
    \cup {Scenario3,
          ItemsDict(<<MapNode(<<Pair(K_taggedText, Hello)>>)>>),
          ItemsDict(<<ItemsDict(<<Item(<<Entry(0, "Hello")>>)>>)>>)}

Trees == GenericTrees \cup LocalizedTrees

\* selector strings, well formed and not
Selectors ==
    {<<>>,                                        \* the empty string
     <<"a">>,                                     \* a
     <<"c">>,                                     \* c
     <<"a", ".", "a">>,                           \* a.a
     <<"a", ".", "b">>,                           \* a.b
     <<"a", "[", "0", "]">>,                      \* a[0]
     <<"a", "[", "1", "]">>,                      \* a[1]
     <<"a", "[", "2", "]">>,                      \* a[2]
     <<"a", "[", "0", "0", "]">>,                 \* a[00]
     <<"a", "[", "0", "]", ".", "a">>,            \* a[0].a
     <<"a", "[", "0", "]", "[", "0", "]">>,       \* a[0][0]
     <<"a", ".">>,                                \* a.
     <<"a", "[", "x", "]">>,                      \* a[x]
     <<"[", "0", "]", ".", "a">>,                 \* [0].a
     K_items \o <<"[", "5", "]", ".">> \o K_text, \* _items[5]._text
     K_items \o <<"[", "1", "]", ".">> \o K_text  \* _items[1]._text
    }

\* the selectors that are also tried with a value that is not a text
DictValueSelectors ==
    {<<"a">>, <<"a", ".", "a">>, <<"a", "[", "0", "]">>}

\* the (selector, value) pairs of the patch entries
PatchEntries ==
    {<<sel, TextValue>> : sel \in Selectors}
    \cup {<<sel, DictValue>> : sel \in DictValueSelectors}

\* the values given to an extracted selector
ExtractedValues == {TextValue}

----------------------------------------------------------------------------
(* The resolver as a state machine: a tree, and set_by_selector calls on it *)

InitResolver ==
    /\ tree \in Trees
    /\ before = tree
    /\ lastSel = <<>>
    /\ lastVal = StrLeaf("")
    /\ ret = "none"
    /\ lastPath = <<>>
    /\ repeated = FALSE
    /\ calls = 0
    /\ StoreIdle
    /\ PackIdle
    /\ BinIdle
    /\ RestIdle

\* the effect of one call set_by_selector(tree, selector, value)
Call(selector, value, path) ==
    LET r == set_by_selector(tree, selector, value)
    IN  /\ calls < MaxCalls
        /\ tree' = r.tree
        /\ ret' = r.ret
        /\ before' = tree
        /\ lastSel' = selector
        /\ lastVal' = value
        /\ lastPath' = path
        /\ repeated' = (calls >= 1 /\ selector = lastSel /\ value = lastVal)
        /\ calls' = calls + 1
        /\ UNCHANGED <<storeVars, packVars, binVars, restVars>>

\* a patch entry with any stored selector is applied
\* (translate_tool.py line 1099)
SetBySelector ==
    \E entry \in PatchEntries : Call(entry[1], entry[2], <<>>)

\* a patch entry whose selector the extractor emitted for this very tree
\* is applied
PatchExtracted ==
    LET texts == Extracted(tree)
    IN  \E i \in 1..Len(texts), value \in ExtractedValues :
            Call(texts[i].selector, value, texts[i].path)

NextResolver == SetBySelector \/ PatchExtracted

SpecResolver == InitResolver /\ [][NextResolver]_vars

----------------------------------------------------------------------------
(* translate_tool.py: dump_patches_from_files (yaml.safe_dump) *)

\* the characters of the model in code point order, as sorted() and
\* sort_keys compare strings
CodeOrder ==
    <<" ", ".", "/">> \o Digits \o <<"<", ">">> \o UpperLetters
    \o <<"[", "]", "_">> \o LowerLetters

Rank(c) == CHOOSE i \in 1..Len(CodeOrder) : CodeOrder[i] = c

\* a < b for two strings
RECURSIVE LessStr(_, _)
LessStr(a, b) ==
    IF b = <<>> THEN FALSE
    ELSE IF a = <<>> THEN TRUE
    ELSE IF a[1] # b[1] THEN Rank(a[1]) < Rank(b[1])
    ELSE LessStr(Tail(a), Tail(b))

\* sorted(keys) for a set of strings
RECURSIVE SortedKeys(_)
SortedKeys(keys) ==
    IF keys = {} THEN <<>>
    ELSE LET least == CHOOSE k \in keys :
                          \A other \in keys \ {k} : LessStr(k, other)
         IN  <<least>> \o SortedKeys(keys \ {least})

\* YAML 1.1 reads a plain scalar of digits as an integer: decimal without
\* leading zero, octal with one
ResolvesToInt(chars) ==
    /\ chars # <<>>
    /\ \A i \in 1..Len(chars) : IsDigitChar(chars[i])
    /\ (Len(chars) > 1 /\ chars[1] = "0")
           => \A i \in 1..Len(chars) : DigitValue(chars[i]) < 8

RECURSIVE ParseOctal(_)
ParseOctal(chars) ==
    IF chars = <<>> THEN 0
    ELSE 8 * ParseOctal(SubSeq(chars, 1, Len(chars) - 1))
         + DigitValue(chars[Len(chars)])

YamlInt(chars) ==
    IF Len(chars) > 1 /\ chars[1] = "0" THEN ParseOctal(chars)
    ELSE ParseInt(chars)

\* a scalar written without quotes whatever it holds
DumpScalarPlain(cell) ==
    IF cell.t = "none" THEN [style |-> "plain", text |-> <<"n", "u", "l", "l">>]
    ELSE [style |-> "plain", text |-> StrOf(cell)]

\* A scalar as safe_dump writes it: None as null, a number plainly, a
\* string plainly unless it would be read back as something else (empty,
\* blank at an end, digits that make an integer), and then in quotes.
DumpScalar(cell) ==
    IF cell.t = "none" THEN [style |-> "plain", text |-> <<"n", "u", "l", "l">>]
    ELSE IF cell.t = "num" THEN [style |-> "plain", text |-> FormatInt(cell.v)]
    ELSE IF \/ cell.v = <<>>
            \/ cell.v # Strip(cell.v)
            \/ ResolvesToInt(cell.v)
            \/ cell.v = <<"n", "u", "l", "l">>
    THEN [style |-> "quoted", text |-> cell.v]
    ELSE [style |-> "plain", text |-> cell.v]

\* a scalar as safe_load reads it
LoadScalar(token) ==
    IF token.style = "quoted" THEN TextCell(token.text)
    ELSE IF token.text = <<"n", "u", "l", "l">> THEN NoneCell
    ELSE IF ResolvesToInt(token.text) THEN NumCell(YamlInt(token.text))
    ELSE TextCell(token.text)

\* the entries of one list, in list order
DumpEntries(entries) ==
    [i \in 1..Len(entries) |->
        [object_selector |-> DumpScalar(TextCell(entries[i].object_selector)),
         patched_value |-> DumpScalar(entries[i].patched_value)]]

\* the path ids of one suffix, sorted
DumpIdMap(suffix, id_map) ==
    LET pids == SortedKeys(DOMAIN id_map)
    IN  [i \in 1..Len(pids) |->
            [suffix |-> DumpScalar(TextCell(suffix)),
             pid |-> DumpScalar(TextCell(pids[i])),
             entries |-> DumpEntries(id_map[pids[i]])]]

RECURSIVE DumpSuffixes(_, _)
DumpSuffixes(store, suffixes) ==
    IF suffixes = <<>> THEN <<>>
    ELSE DumpIdMap(Head(suffixes), store[Head(suffixes)])
         \o DumpSuffixes(store, Tail(suffixes))

\* yaml.safe_dump(merged, sort_keys=True), line 244: the document, one
\* group per (suffix, path id), both sorted
safe_dump(store) == DumpSuffixes(store, SortedKeys(DOMAIN store))

\* yaml.safe_load of such a document, line 98, as the groups the load
\* walks over
safe_load(doc) ==
    [g \in 1..Len(doc) |->
        [suffix |-> LoadScalar(doc[g].suffix).v,
         pid |-> LoadScalar(doc[g].pid),
         entries |->
             [i \in 1..Len(doc[g].entries) |->
                 [object_selector |-> LoadScalar(doc[g].entries[i].object_selector),
                  patched_value |-> LoadScalar(doc[g].entries[i].patched_value)]]]]

----------------------------------------------------------------------------
(* The sources the model draws from *)

S_a == TextCell(<<"a">>)          \* a bundle path suffix
Sel_s == <<"s">>                  \* two object selectors
Sel_t == <<"t">>
V_old == <<"o", "l", "d">>
V_new == <<"n", "e", "w">>
Pid42 == <<"4", "2">>
Pid042 == <<"0", "4", "2">>
Pid_42 == <<" ", "4", "2">>

YEntry(selector, value) ==
    [object_selector |-> TextCell(selector), patched_value |-> TextCell(value)]

YGroup(pid, entries) == [suffix |-> <<"a">>, pid |-> pid, entries |-> entries]

YamlPids == {NumCell(42), TextCell(Pid42)}

YamlEntries == {YEntry(sel, v) : sel \in {Sel_s, Sel_t}, v \in {V_old, V_new}}

\* addresses.txt: absent or empty; one path id with one entry; one path
\* id with two entries; the path id once as a number and once as a text;
\* an entry without object_selector
YamlFiles ==
    {<<>>}
    \cup {<<YGroup(pid, <<e>>)>> : pid \in YamlPids, e \in YamlEntries}
    \cup {<<YGroup(NumCell(42), es)>> :
             es \in {<<YEntry(Sel_s, V_old), YEntry(Sel_s, V_new)>>,
                     <<YEntry(Sel_s, V_old), YEntry(Sel_t, V_old)>>}}
    \cup {<<YGroup(NumCell(42), <<YEntry(Sel_s, V_old)>>),
            YGroup(TextCell(Pid42), <<e>>)>> :
             e \in {YEntry(Sel_s, V_new), YEntry(Sel_t, V_new)}}
    \cup {<<YGroup(NumCell(42),
                   <<[object_selector |-> NoneCell,
                      patched_value |-> TextCell(V_old)]>>)>>}

Row(suffix, pathid, selector, original, translated) ==
    [suffix |-> suffix, pathid |-> pathid, selector |-> TextCell(selector),
     original |-> original, translated |-> translated]

Sheet(status, headers, rows) ==
    [status |-> status, headers |-> headers, rows |-> rows]

SheetPids == {TextCell(Pid42), TextCell(Pid042), TextCell(Pid_42), NumCell(42)}

\* rows with a value: the Original cell alone, or a Translated cell too;
\* a row without value, one without suffix; a Translated cell of blanks,
\* one holding a number; an Original cell with blanks around the text
OneRowSheets ==
    {<<Row(S_a, pid, sel, TextCell(V_old), tr)>> :
        pid \in SheetPids, sel \in {Sel_s, Sel_t},
        tr \in {NoneCell, TextCell(V_new)}}
    \cup {<<Row(S_a, TextCell(Pid42), Sel_s, NoneCell, NoneCell)>>,
          <<Row(NoneCell, TextCell(Pid42), Sel_s, TextCell(V_old), NoneCell)>>}
    \cup {<<Row(S_a, TextCell(Pid42), Sel_s, TextCell(V_old), tr)>> :
             tr \in {TextCell(<<" ">>), NumCell(7)}}
    \cup {<<Row(S_a, TextCell(Pid42), Sel_s,
                TextCell(<<" ">> \o V_new \o <<" ">>), NoneCell)>>}

TwoRowRows ==
    {Row(S_a, TextCell(Pid42), Sel_s, TextCell(V_old), NoneCell),
     Row(S_a, TextCell(Pid42), Sel_s, TextCell(V_new), NoneCell),
     Row(S_a, TextCell(Pid42), Sel_t, TextCell(V_old), NoneCell)}

TwoRowSheets == {rows \in TwoRowRows \X TwoRowRows : rows[1] # rows[2]}

\* header rows: PATCH_HEADER (line 47); the needed columns in another
\* case and with blanks; no `Translated` column; no `Object selector`
\* column; a number in a header cell, with and without the needed columns
H_suffix == TextCell(<<"B", "u", "n", "d", "l", "e", " ", "p", "a", "t", "h", " ", "s", "u", "f", "f", "i", "x">>)
H_pathid == TextCell(<<"P", "a", "t", "h", "I", "D">>)
H_selector == TextCell(<<"O", "b", "j", "e", "c", "t", " ", "s", "e", "l", "e", "c", "t", "o", "r">>)
H_original == TextCell(<<"O", "r", "i", "g", "i", "n", "a", "l">>)
H_translated == TextCell(<<"T", "r", "a", "n", "s", "l", "a", "t", "e", "d">>)
H_notes == TextCell(<<"N", "o", "t", "e", "s">>)
PATCH_HEADER ==
    <<H_suffix, H_pathid, H_selector, H_original, H_translated, H_notes>>
HeadersOtherCase ==
    <<H_suffix, TextCell(<<" ", "p", "a", "t", "h", "i", "d", " ">>), H_selector, H_original, H_translated>>
HeadersNoTranslated == <<H_suffix, H_pathid, H_selector, H_original>>
HeadersNoSelector == <<H_suffix, H_pathid, NoneCell, H_original, H_translated>>
HeadersNumberNoSelector == <<H_suffix, H_pathid, NumCell(7), H_original>>
HeadersNumber == PATCH_HEADER \o <<NumCell(7)>>

RowOldNew == Row(S_a, TextCell(Pid42), Sel_s, TextCell(V_old), TextCell(V_new))

\* a workbook's patch sheet: usable with no, one or two data rows; other
\* header rows; or no sheet to read (file missing or unreadable, sheet
\* missing)
Sheets ==
    {Sheet("ok", PATCH_HEADER, rows) :
        rows \in {<<>>} \cup OneRowSheets \cup TwoRowSheets}
    \cup {Sheet("ok", headers, <<RowOldNew>>) :
             headers \in {HeadersOtherCase, HeadersNoTranslated,
                          HeadersNoSelector, HeadersNumberNoSelector,
                          HeadersNumber}}
    \cup {Sheet(status, <<>>, <<>>) :
             status \in {"missing", "unreadable", "nosheet"}}

----------------------------------------------------------------------------
(* load_patches_from_files as a state machine: one step per source *)

MaxDumps == 2

InitStore ==
    /\ yamlFile \in YamlFiles
    /\ xlsxSheet \in Sheets
    /\ infoSheet \in Sheets
    /\ merged = <<>>
    /\ phase = "start"
    /\ dumps = 0
    /\ lastDoc = <<>>
    /\ prevDoc = <<>>
    /\ prevMerged = <<>>
    /\ ResolverIdle
    /\ PackIdle
    /\ BinIdle
    /\ RestIdle

\* lines 93-118: the YAML file
LoadYaml ==
    /\ phase = "start"
    /\ merged' = MergeRecords(merged, YamlRecords(yamlFile))
    /\ phase' = "yaml"
    /\ UNCHANGED <<yamlFile, xlsxSheet, infoSheet, dumps, lastDoc, prevDoc,
                   prevMerged, resolverVars, packVars, binVars, restVars>>

\* _gather_from_workbook(xlsx_path), lines 121-161, on `sheet`
_gather_from_workbook(sheet, next) ==
    /\ merged' = MergeRecords(merged, SheetRecords(sheet))
    /\ phase' = IF SheetRaises(sheet) THEN "raised" ELSE next
    /\ UNCHANGED <<yamlFile, xlsxSheet, infoSheet, dumps, lastDoc, prevDoc,
                   prevMerged, resolverVars, packVars, binVars, restVars>>

\* line 164: translate.xlsx
GatherTranslateXlsx == phase = "yaml" /\ _gather_from_workbook(xlsxSheet, "xlsx")

\* lines 166-168: bundle_info.xlsx, and the return
GatherBundleInfoXlsx == phase = "xlsx" /\ _gather_from_workbook(infoSheet, "done")

\* dump_patches_from_files, lines 240-247, once its load has returned:
\* the merged map is written to addresses.txt, which the next load reads
DumpPatches ==
    /\ phase = "done"
    /\ dumps < MaxDumps
    /\ dumps' = dumps + 1
    /\ lastDoc' = safe_dump(merged)
    /\ prevDoc' = lastDoc
    /\ prevMerged' = merged
    /\ yamlFile' = safe_load(safe_dump(merged))
    /\ merged' = <<>>
    /\ phase' = "start"
    /\ UNCHANGED <<xlsxSheet, infoSheet, resolverVars, packVars, binVars, restVars>>

NextStore ==
    LoadYaml \/ GatherTranslateXlsx \/ GatherBundleInfoXlsx \/ DumpPatches

SpecStore == InitStore /\ [][NextStore]_vars

----------------------------------------------------------------------------
(* Notions the properties are stated with *)

\* following `steps` from `root` never leaves the tree
RECURSIVE Reaches(_, _)
Reaches(root, steps) ==
    \/ steps = <<>>
    \/ /\ CanSubscript(root, Head(steps))
       /\ Reaches(Subscript(root, Head(steps)), Tail(steps))

\* the node `steps` lead to, where Reaches
RECURSIVE NodeAt(_, _)
NodeAt(root, steps) ==
    IF steps = <<>> THEN root
    ELSE NodeAt(Subscript(root, Head(steps)), Tail(steps))

\* the places of all nodes of a tree
RECURSIVE AllPaths(_)
AllPaths(node) ==
    {<<>>} \cup
    (IF IsDict(node)
     THEN UNION {{<<KeyStep(node.v[i].k)>> \o p : p \in AllPaths(node.v[i].v)} :
                    i \in 1..Len(node.v)}
     ELSE IF IsList(node)
     THEN UNION {{<<IdxStep(i - 1)>> \o p : p \in AllPaths(node.v[i])} :
                    i \in 1..Len(node.v)}
     ELSE {})

IsPrefix(p, q) == Len(p) <= Len(q) /\ SubSeq(q, 1, Len(p)) = p

\* what a container is apart from its children: its fields in order, or
\* its length
Shape(node) ==
    IF IsDict(node) THEN <<"map", [i \in 1..Len(node.v) |-> node.v[i].k]>>
    ELSE IF IsList(node) THEN <<"seq", Len(node.v)>>
    ELSE <<"leaf", node>>

\* `new` is `old` but for the node at `at` and what lies below it
SameElsewhere(old, new, at) ==
    /\ \A q \in AllPaths(old) :
           ~IsPrefix(at, q) =>
               /\ Reaches(new, q)
               /\ IF IsPrefix(q, at)
                  THEN Shape(NodeAt(new, q)) = Shape(NodeAt(old, q))
                  ELSE NodeAt(new, q) = NodeAt(old, q)
    /\ \A q \in AllPaths(new) : ~IsPrefix(at, q) => q \in AllPaths(old)

\* the accesses the last call's selector asks for
LastSteps == TokenSteps(_parse_selector(lastSel))

\* walking `steps` from `root`, some field access finds a node that is no
\* Mapping or lacks the field, every access before it having succeeded
FieldMissing(root, steps) ==
    \E j \in 1..Len(steps) :
        /\ steps[j].kind = "key"
        /\ Reaches(root, SubSeq(steps, 1, j - 1))
        /\ LET cur == NodeAt(root, SubSeq(steps, 1, j - 1))
           IN  ~IsDict(cur) \/ ~HasKey(cur, steps[j].at)

\* walking `steps` from `root`, some index is applied to a node that is no
\* Sequence or is out of bounds, every access before it having succeeded
IndexMissing(root, steps) ==
    \E j \in 1..Len(steps) :
        /\ steps[j].kind = "idx"
        /\ Reaches(root, SubSeq(steps, 1, j - 1))
        /\ LET cur == NodeAt(root, SubSeq(steps, 1, j - 1))
           IN  ~IsList(cur) \/ steps[j].at >= Len(cur.v)

----------------------------------------------------------------------------
(* Properties of the resolver *)

\* C1: if, walking the selector's tokens, the current node is not a Mapping
\* or does not contain the token's field, set_by_selector returns False,
\* raises nothing and leaves the whole tree as it was.
C1_FieldSoftFail ==
    (ret # "none" /\ FieldMissing(before, LastSteps))
        => (ret = "false" /\ tree = before)

\* a call that failed at a field that is not the first token's
C1_Witness ==
    /\ ret = "false"
    /\ FieldMissing(before, LastSteps)
    /\ Len(LastSteps) >= 2
    /\ Reaches(before, <<LastSteps[1]>>)

\* C2: if an index is applied to a node that is not a Sequence or is out of
\* bounds, set_by_selector returns False without raising and the tree is
\* unchanged; so for `_items[5]._text` against an `_items` of length 2.
C2_IndexSoftFail ==
    (ret # "none" /\ IndexMissing(before, LastSteps))
        => (ret = "false" /\ tree = before)

\* scenario 3: `_items[5]._text`, `_items` of length 2
C2_Witness ==
    /\ ret = "false"
    /\ before = Scenario3
    /\ lastSel = K_items \o <<"[", "5", "]", ".">> \o K_text
    /\ IndexMissing(before, LastSteps)

\* C3: when set_by_selector returns True, the node at the selector's full
\* token path equals the value, uncoerced, and every other field and
\* element of the tree is unchanged.
C3_WriteFrame ==
    ret = "true" =>
        /\ Reaches(tree, LastSteps)
        /\ NodeAt(tree, LastSteps) = lastVal
        /\ SameElsewhere(before, tree, LastSteps)

\* a value that is not a text was written into a list element of a tree
\* that has other fields
C3_Witness ==
    /\ ret = "true"
    /\ lastVal = DictValue
    /\ LastSteps[Len(LastSteps)].kind = "idx"
    /\ Cardinality(AllPaths(before)) >= 4

\* C4: calling set_by_selector twice with the same selector and value
\* leaves the same tree, and returns the same, as calling it once.
C4_Idempotent ==
    [][(calls >= 1 /\ calls' = calls + 1
        /\ lastSel' = lastSel /\ lastVal' = lastVal)
           => (tree' = tree /\ ret' = ret)]_vars

\* the same successful call was made twice, on a list element
C4_Witness ==
    /\ repeated
    /\ ret = "true"
    /\ LastSteps[Len(LastSteps)].kind = "idx"

----------------------------------------------------------------------------
(* Selectors as token sequences *)

\* number of list subscripts `path` starts with
RECURSIVE LeadingIndices(_)
LeadingIndices(path) ==
    IF path = <<>> \/ path[1].kind = "key" THEN 0
    ELSE 1 + LeadingIndices(Tail(path))

\* The token sequence of a place in a tree: each field with the indices
\* that follow it.  Indices no field precedes (the elements of a root
\* list) form a token with an empty field name.
RECURSIVE PathTokens(_)
PathTokens(path) ==
    IF path = <<>> THEN <<>>
    ELSE LET named == path[1].kind = "key"
             rest == IF named THEN Tail(path) ELSE path
             n == LeadingIndices(rest)
         IN  <<[name |-> IF named THEN path[1].at ELSE <<>>,
                idxs |-> [i \in 1..n |-> rest[i].at]]>>
             \o PathTokens(SubSeq(rest, n + 1, Len(rest)))

RECURSIVE SerializeIndices(_)
SerializeIndices(idxs) ==
    IF idxs = <<>> THEN <<>>
    ELSE <<"[">> \o FormatInt(Head(idxs)) \o <<"]">>
         \o SerializeIndices(Tail(idxs))

\* serialize (specification 4.1): the field name, then each index in
\* brackets, tokens joined by "."
RECURSIVE Serialize(_)
Serialize(tokens) ==
    IF tokens = <<>> THEN <<>>
    ELSE Head(tokens).name \o SerializeIndices(Head(tokens).idxs)
         \o (IF Len(tokens) = 1 THEN <<>>
             ELSE <<".">> \o Serialize(Tail(tokens)))

\* a field name of the selector grammar: one or more \w characters
IsWordName(name) ==
    name # <<>> /\ \A i \in 1..Len(name) : IsWordChar(name[i])

\* the selector the extractor emits is the serialization of the token
\* sequence of the place it read
ExtractorSerializes ==
    \A i \in 1..Len(Extracted(tree)) :
        Extracted(tree)[i].selector
            = Serialize(PathTokens(Extracted(tree)[i].path))

\* token sequences whose field names all are words are parsed back
RoundTripOfWordNames ==
    \A i \in 1..Len(Extracted(tree)) :
        LET t == PathTokens(Extracted(tree)[i].path)
        IN  (\A j \in 1..Len(t) : IsWordName(t[j].name))
                => _parse_selector(Serialize(t)) = t

\* C5: for every token sequence t of (field name, indices) the extractor
\* can produce, parsing the serialization of t returns exactly t: the same
\* field names, the same index lists, in the same order.  (Stated for the
\* sequences all of whose tokens have a field name; the elements of a root
\* list, which have none, are left to C6.)
C5_RoundTrip ==
    \A i \in 1..Len(Extracted(tree)) :
        LET t == PathTokens(Extracted(tree)[i].path)
        IN  (\A j \in 1..Len(t) : t[j].name # <<>>)
                => _parse_selector(Serialize(t)) = t

\* C6: every selector the extractor emits for a tree, given to
\* set_by_selector on the same tree, resolves and writes exactly the
\* `_text` leaf the extractor read, also when the root is a Sequence.
C6_ExtractThenPatch ==
    lastPath # <<>> =>
        /\ ret = "true"
        /\ Reaches(tree, lastPath)
        /\ NodeAt(tree, lastPath) = lastVal
        /\ SameElsewhere(before, tree, lastPath)

----------------------------------------------------------------------------
(* The Patch Store: what load_patches_from_files returns *)

\* The records the k-th source hands to _merge_entry: 1 is addresses.txt,
\* 2 is translate.xlsx, 3 is bundle_info.xlsx.
SourceRecords(k) ==
    CASE k = 1 -> YamlRecords(yamlFile)
      [] k = 2 -> SheetRecords(xlsxSheet)
      [] k = 3 -> SheetRecords(infoSheet)

KeyOf(r) == <<r.suffix, r.pid, r.selector>>

IsKey(key) == key[1] # <<>> /\ key[2] # <<>> /\ key[3] # <<>>

\* the keys (suffix, pathId, selector) the k-th source supplies
Keys(k) ==
    {key \in {KeyOf(SourceRecords(k)[i]) : i \in 1..Len(SourceRecords(k))} :
        IsKey(key)}

\* the value of the last record of the k-th source with this key
LastSupplied(k, key) ==
    LET recs == SourceRecords(k)
        last == CHOOSE i \in 1..Len(recs) :
                    /\ KeyOf(recs[i]) = key
                    /\ \A j \in (i + 1)..Len(recs) : KeyOf(recs[j]) # key
    IN  recs[last].value

\* the entry list of (suffix, pathId) in a merged map
EntriesOf(store, suffix, pid) ==
    IF suffix \in DOMAIN store /\ pid \in DOMAIN store[suffix]
    THEN store[suffix][pid]
    ELSE <<>>

\* the values a merged map holds for a key
ValuesOf(store, key) ==
    LET entries == EntriesOf(store, key[1], key[2])
    IN  {entries[i].patched_value :
            i \in {j \in 1..Len(entries) : entries[j].object_selector = key[3]}}

\* C7: once all three sources are loaded, a key supplied by an earlier and
\* by a later source (addresses.txt, then translate.xlsx, then
\* bundle_info.xlsx) has in the merged map the value of the latest source
\* that supplies it.
C7_LastSourceWins ==
    phase = "done" =>
        \A k1 \in 1..3 : \A k2 \in (k1 + 1)..3 :
            \A key \in Keys(k1) \cap Keys(k2) :
                (\A k3 \in (k2 + 1)..3 : key \notin Keys(k3))
                    => ValuesOf(merged, key) = {LastSupplied(k2, key)}

\* C7: a load is finished in which two sources gave one key different
\* values.
C7_Witness ==
    /\ phase = "done"
    /\ \E k1 \in 1..3 : \E k2 \in (k1 + 1)..3 :
           \E key \in Keys(k1) \cap Keys(k2) :
               LastSupplied(k1, key) # LastSupplied(k2, key)

\* C8: at every point of the load, for every suffix and pathId, no two
\* entries of the entry list have the same selector.
C8_UniqueKeys ==
    \A suffix \in DOMAIN merged : \A pid \in DOMAIN merged[suffix] :
        LET entries == merged[suffix][pid]
        IN  \A i, j \in 1..Len(entries) :
                entries[i].object_selector = entries[j].object_selector
                    => i = j

\* C8: the same key has been merged more than once, by one source or by
\* two, and the load went through.
C8_Witness ==
    /\ phase = "done"
    /\ \E k1, k2 \in 1..3 :
           \E i \in 1..Len(SourceRecords(k1)), j \in 1..Len(SourceRecords(k2)) :
               /\ k1 < k2 \/ (k1 = k2 /\ i < j)
               /\ IsKey(KeyOf(SourceRecords(k1)[i]))
               /\ KeyOf(SourceRecords(k1)[i]) = KeyOf(SourceRecords(k2)[j])

\* the orders a sequence can be put in
Perms(seq) ==
    LET n == Len(seq)
    IN  {[i \in 1..n |-> seq[p[i]]] :
            p \in {q \in [1..n -> 1..n] :
                      \A a, b \in 1..n : q[a] = q[b] => a = b}}

\* a sheet with its rows in another order
PermutedSheets(sheet) ==
    {Sheet(sheet.status, sheet.headers, rows) : rows \in Perms(sheet.rows)}

\* the YAML file with its groups, or the entries of one group, in another
\* order
PermutedYaml(groups) ==
    Perms(groups)
    \cup UNION {{[groups EXCEPT ![g].entries = es] :
                     es \in Perms(groups[g].entries)} :
                 g \in 1..Len(groups)}

\* C9: a finished load gave the merged map that it gives for every order
\* of the records inside any one of its three sources: same keys, same
\* values, same order of every entry list.
C9_OrderInsensitive ==
    phase = "done" =>
        /\ \A y \in PermutedYaml(yamlFile) :
               load_patches_from_files(y, xlsxSheet, infoSheet).merged = merged
        /\ \A x \in PermutedSheets(xlsxSheet) :
               load_patches_from_files(yamlFile, x, infoSheet).merged = merged
        /\ \A b \in PermutedSheets(infoSheet) :
               load_patches_from_files(yamlFile, xlsxSheet, b).merged = merged

\* a text of decimal digits
IsNumeral(chars) ==
    chars # <<>> /\ \A i \in 1..Len(chars) : IsDigitChar(chars[i])

\* C10: in the merged map of a finished load, two pathId keys under one
\* suffix that are numerals of the same number are the same key.
C10_CanonicalPathId ==
    phase = "done" =>
        \A suffix \in DOMAIN merged :
            \A p1, p2 \in DOMAIN merged[suffix] :
                (IsNumeral(p1) /\ IsNumeral(p2) /\ ParseInt(p1) = ParseInt(p2))
                    => p1 = p2

----------------------------------------------------------------------------
(* translate_tool.py: pack_translated_files *)

\* pathlib.Path(text): the components of a path; a trailing or doubled
\* separator leaves no component
PathParts(chars) == SelectSeq(SplitOn(chars, "/"), LAMBDA part : part # <<>>)

\* str(path): the components joined by the separator
RECURSIVE PathStr(_)
PathStr(path) ==
    IF path = <<>> THEN <<>>
    ELSE IF Len(path) = 1 THEN path[1]
    ELSE path[1] \o <<"/">> \o PathStr(Tail(path))

\* text.endswith(suffix)
EndsWith(text, suffix) ==
    /\ Len(suffix) <= Len(text)
    /\ SubSeq(text, Len(text) - Len(suffix) + 1, Len(text)) = suffix

\* `part in text` for two strings
IsSubstring(part, text) ==
    \E i \in 0..(Len(text) - Len(part)) : SubSeq(text, i + 1, i + Len(part)) = part

\* the names _list_bundles leaves out (line 24)
IGNORED_BUNDLE_SUFFIXES == {<<"g">>}

\* _list_bundles(folder_path), lines 847-851: every container file below
\* the folder, at any depth, whose name has no ignored suffix.  Every file
\* of the model is a *.bundle file.
_list_bundles(files, folder_path_) ==
    LET folder == PathParts(folder_path_)
    IN  {p \in DOMAIN files :
            /\ IsPrefix(folder, p)
            /\ Len(p) > Len(folder)
            /\ \A suf \in IGNORED_BUNDLE_SUFFIXES : ~EndsWith(p[Len(p)], suf)}

\* line 977: Path(folder_path + "_backup")
backup_folder(folder_path_) ==
    PathParts(folder_path_ \o <<"_", "b", "a", "c", "k", "u", "p">>)

\* lines 1113-1117: backup_folder / bundle_path.relative_to(folder)
backup_path(folder_path_, bundle_path_) ==
    LET folder == PathParts(folder_path_)
        rel_path == IF IsPrefix(folder, bundle_path_)
                    THEN SubSeq(bundle_path_, Len(folder) + 1, Len(bundle_path_))
                    ELSE <<bundle_path_[Len(bundle_path_)]>>
    IN  backup_folder(folder_path_) \o rel_path

\* An object of a container.  `fault` says which call on it raises:
\* "none", "read" (obj.read, obj.read_typetree) or "save" (data.save,
\* obj.save_typetree).
Obj(type, path_id, m_Name, data, fault) ==
    [type |-> type, path_id |-> path_id, m_Name |-> m_Name, data |-> data,
     fault |-> fault]

\* A container file: UnityPy.load succeeds on it or raises.
Container(objects) == [loadable |-> TRUE, objects |-> objects]
Corrupt == [loadable |-> FALSE, objects |-> <<>>]

\* translated_text_file_dict (lines 983-985) and patched_asset_file_dict
\* (lines 987-990): the replacement texts and images found on disk
translated_text_file_dict == (<<"t">> :> "translated")
patched_asset_file_dict == (<<"p">> :> "patched image")

\* lines 995-1002: every (suffix, pathId, selector) of the patches
AllPatchEntries(patches_) ==
    UNION {UNION {{<<suf, pid, patches_[suf][pid][i].object_selector>> :
                      i \in 1..Len(patches_[suf][pid])} :
                  pid \in DOMAIN patches_[suf]} :
           suf \in DOMAIN patches_}

\* line 1011
applicable_suffixes(patches_, bundle_path_str) ==
    {suf \in DOMAIN patches_ : EndsWith(bundle_path_str, suf)}

\* a set of suffixes as the list the comprehension of line 1011 gives
RECURSIVE SuffixList(_)
SuffixList(sufs) ==
    IF sufs = {} THEN <<>>
    ELSE LET suf == CHOOSE x \in sufs : TRUE
         IN  <<suf>> \o SuffixList(sufs \ {suf})

\* lines 1079-1083: the list of (suffix, entry) for one object
RECURSIVE todo_entries(_, _, _)
todo_entries(patches_, sufs, pid_key) ==
    IF sufs = <<>> THEN <<>>
    ELSE LET id_map == patches_[Head(sufs)]
             entries == IF pid_key \in DOMAIN id_map THEN id_map[pid_key]
                        ELSE <<>>
         IN  [i \in 1..Len(entries) |-> <<Head(sufs), entries[i]>>]
             \o todo_entries(patches_, Tail(sufs), pid_key)

\* a discard that removes nothing
DiscardNothing(entries, key) == entries

\* line 1103: all_patch_entries.discard(key)
discard(entries, key) == entries \ {key}

\* a flag that is set whether or not an entry was set
AnyPatchedAlways(any, ok) == TRUE

\* lines 1100-1101: any_patched_this_obj after one more entry
any_patched_this_obj(any, ok) == any \/ ok

\* lines 1099-1103: the state of the patch loop after a call of
\* set_by_selector for the entry `key` gave `r`
ApplyStep(acc, key, r) ==
    [tree |-> r.tree,
     raised |-> r.ret = "raised",
     any |-> any_patched_this_obj(acc.any, r.ret = "true"),
     oks |-> acc.oks + (IF r.ret = "true" THEN 1 ELSE 0),
     entries |-> IF r.ret = "true" THEN discard(acc.entries, key)
                 ELSE acc.entries,
     succeeded |-> IF r.ret = "true" THEN acc.succeeded \cup {key}
                   ELSE acc.succeeded]

\* lines 1093-1103: the patch loop of one object from the state `acc` on
RECURSIVE ApplyEntries(_, _, _)
ApplyEntries(acc, todo, pid_key) ==
    IF todo = <<>> \/ acc.raised THEN acc
    ELSE ApplyEntries(
             ApplyStep(acc,
                       <<Head(todo)[1], pid_key, Head(todo)[2].object_selector>>,
                       set_by_selector(acc.tree, Head(todo)[2].object_selector,
                                       Head(todo)[2].patched_value)),
             Tail(todo), pid_key)

\* lines 1037-1040: the index of the last Texture2D whose name contains
\* the name of the atlas, 0 when there is none
matching_texture(objects, atlas) ==
    LET found == {i \in 1..Len(objects) :
                     /\ objects[i].type = "Texture2D"
                     /\ IsSubstring(atlas.m_Name, objects[i].m_Name)}
    IN  IF found = {} THEN 0
        ELSE CHOOSE i \in found : \A j \in found : j <= i

\* What the scan does with one object (lines 1020-1110).  `kind` is
\* "next" when the scan goes on to the next object and "raised" when an
\* exception leaves the scan; `objects` are the objects in memory after
\* it, `modified` is bundle_modified, `applied` says that a text, image
\* or patch value was put in, `fault` that a call on the object raised.
ScanResult(kind, objects, modified, applied, fault, entries, keys, saves, oks) ==
    [kind |-> kind, objects |-> objects, modified |-> modified,
     applied |-> applied, fault |-> fault, entries |-> entries,
     keys |-> keys, saves |-> saves, oks |-> oks]

\* lines 1021-1033
ScanTextAsset(objects, i, modified, entries) ==
    LET obj == objects[i]
    IN  IF obj.m_Name \notin DOMAIN translated_text_file_dict
        THEN ScanResult("next", objects, modified, FALSE, FALSE, entries, {}, 0, 0)
        ELSE IF obj.fault # "none"
        THEN ScanResult("raised", objects, modified, FALSE, TRUE, entries, {}, 0, 0)
        ELSE ScanResult("next",
                        [objects EXCEPT
                            ![i].data = translated_text_file_dict[obj.m_Name]],
                        TRUE, TRUE, FALSE, entries, {}, 0, 0)

\* lines 1034-1064
ScanSpriteAtlas(objects, i, modified, entries) ==
    LET obj == objects[i]
        tex == matching_texture(objects, obj)
        patched == \E k \in 1..Len(obj.data) :
                       obj.data[k] \in DOMAIN patched_asset_file_dict
        modified_ == modified \/ patched
    IN  IF obj.fault = "read"
        THEN ScanResult("raised", objects, modified, FALSE, TRUE, entries, {}, 0, 0)
        ELSE IF tex = 0
        THEN ScanResult("next", objects, modified, FALSE, FALSE, entries, {}, 0, 0)
        ELSE IF ~modified_
        THEN ScanResult("next", objects, modified, FALSE, FALSE, entries, {}, 0, 0)
        ELSE IF objects[tex].fault = "save"
        THEN ScanResult("raised", objects, modified_, patched, TRUE, entries, {}, 0, 0)
        ELSE ScanResult("next",
                        [objects EXCEPT
                            ![tex].data = IF patched THEN "composited image"
                                          ELSE @],
                        modified_, patched, FALSE, entries, {}, 0, 0)

\* lines 1066-1075
ScanTexture2D(objects, i, modified, entries) ==
    LET obj == objects[i]
    IN  IF obj.fault = "read"
        THEN ScanResult("raised", objects, modified, FALSE, TRUE, entries, {}, 0, 0)
        ELSE IF obj.m_Name \notin DOMAIN patched_asset_file_dict
        THEN ScanResult("next", objects, modified, FALSE, FALSE, entries, {}, 0, 0)
        ELSE IF obj.fault = "save"
        THEN ScanResult("raised", objects, modified, FALSE, TRUE, entries, {}, 0, 0)
        ELSE ScanResult("next",
                        [objects EXCEPT
                            ![i].data = patched_asset_file_dict[obj.m_Name]],
                        TRUE, TRUE, FALSE, entries, {}, 0, 0)

\* lines 1084-1110: what the scan does with a MonoBehaviour whose
\* entries are `todo`, the patch loop having ended in `acc`
MonoOutcome(objects, i, modified, entries, todo, acc) ==
    IF todo = <<>>
    THEN ScanResult("next", objects, modified, FALSE, FALSE, entries, {}, 0, 0)
    ELSE IF objects[i].fault = "read"
    THEN ScanResult("next", objects, modified, FALSE, TRUE, entries, {}, 0, 0)
    ELSE IF acc.raised
    THEN ScanResult("raised", objects, modified, acc.oks > 0, FALSE,
                    acc.entries, acc.succeeded, 0, acc.oks)
    ELSE IF ~acc.any
    THEN ScanResult("next", objects, modified, FALSE, FALSE,
                    acc.entries, acc.succeeded, 0, acc.oks)
    ELSE IF objects[i].fault = "save"
    THEN ScanResult("next", objects, modified, acc.oks > 0, TRUE,
                    acc.entries, acc.succeeded, 1, acc.oks)
    ELSE ScanResult("next", [objects EXCEPT ![i].data = acc.tree], TRUE,
                    acc.oks > 0, FALSE, acc.entries, acc.succeeded, 1,
                    acc.oks)

\* the patch loop of one object run from its start
PatchLoop(tree_, entries, todo, pid_key) ==
    ApplyEntries([tree |-> tree_, raised |-> FALSE, any |-> FALSE, oks |-> 0,
                  entries |-> entries, succeeded |-> {}],
                 todo, pid_key)

\* lines 1078-1083, then the rest with the entries found
MonoWithTodo(objects, i, modified, entries, pid_key, todo) ==
    MonoOutcome(objects, i, modified, entries, todo,
                PatchLoop(objects[i].data, entries, todo, pid_key))

\* lines 1077-1110
ScanMonoBehaviour(objects, i, modified, entries, patches_, sufs) ==
    MonoWithTodo(objects, i, modified, entries, FormatInt(objects[i].path_id),
                 todo_entries(patches_, SuffixList(sufs),
                              FormatInt(objects[i].path_id)))

\* lines 1020-1110: the branch the type of the object selects
ScanOne(objects, i, modified, entries, patches_, sufs) ==
    LET type == objects[i].type
    IN  IF type = "TextAsset" THEN ScanTextAsset(objects, i, modified, entries)
        ELSE IF type = "SpriteAtlas"
        THEN ScanSpriteAtlas(objects, i, modified, entries)
        ELSE IF type = "Texture2D"
        THEN ScanTexture2D(objects, i, modified, entries)
        ELSE IF type = "MonoBehaviour" /\ sufs # {}
        THEN ScanMonoBehaviour(objects, i, modified, entries, patches_, sufs)
        ELSE ScanResult("next", objects, modified, FALSE, FALSE, entries, {}, 0, 0)

----------------------------------------------------------------------------
(* The folders and patches the model runs pack_translated_files on *)

MaxRuns == 2

N_d == <<"d">>              \* the folder
N_x == <<"x">>              \* a container the patches name by its suffix
N_y == <<"y">>              \* a container no patch names

\* the folder as typed on the command line, without and with a trailing
\* separator
FolderPaths == {<<"d">>, <<"d", "/">>}

\* the patches: for container x, object 1 the selectors s and t, object
\* 2 the selector s
PackRecords ==
    <<Record(N_x, <<"1">>, Sel_s, TextCell(V_new)),
      Record(N_x, <<"1">>, Sel_t, TextCell(V_new)),
      Record(N_x, <<"2">>, Sel_s, TextCell(V_new))>>

PatchMaps == {<<>>, MergeRecords(<<>>, PackRecords)}

T_s == MapNode(<<Pair(Sel_s, StrLeaf("old"))>>)   \* has the field s only
T_none == MapNode(<<>>)                           \* has no field

Mono(path_id, tree_, fault) == Obj("MonoBehaviour", path_id, <<>>, tree_, fault)
Text(name, fault) == Obj("TextAsset", 0, name, "original", fault)
Tex(name, fault) == Obj("Texture2D", 0, name, "original image", fault)
Atlas(name, sprites) == Obj("SpriteAtlas", 0, name, sprites, "none")

\* what container x holds
ContentsOfX ==
    {Container(objects) : objects \in
        {<<>>,
         <<Mono(1, T_s, "none")>>,
         <<Mono(2, T_none, "none")>>,
         <<Mono(3, T_s, "none")>>,
         <<Mono(1, T_s, "read")>>,
         <<Mono(1, T_s, "save")>>,
         <<Mono(1, T_s, "none"), Mono(2, T_none, "none")>>,
         <<Mono(1, T_s, "read"), Mono(2, T_s, "none")>>,
         <<Mono(2, T_s, "save"), Mono(1, T_s, "none")>>,
         <<Text(<<"t">>, "none")>>,
         <<Text(<<"u">>, "none")>>,
         <<Text(<<"t">>, "read"), Mono(1, T_s, "none")>>,
         <<Mono(1, T_s, "none"), Text(<<"t">>, "save")>>,
         <<Tex(<<"p">>, "none")>>,
         <<Tex(<<"p">>, "save"), Mono(1, T_s, "none")>>,
         <<Tex(<<"q">>, "read"), Mono(1, T_s, "none")>>,
         <<Tex(<<"q", "a">>, "none"), Atlas(<<"q">>, <<<<"p">>>>)>>,
         <<Text(<<"t">>, "none"), Tex(<<"q", "a">>, "none"),
           Atlas(<<"q">>, <<<<"r">>>>)>>,
         <<Tex(<<"q", "a">>, "none"), Atlas(<<"z">>, <<<<"p">>>>)>>}}
    \cup {Corrupt}

\* the other files of the folder: none, a container y, an ignored file,
\* a container x in a subfolder s
OtherFiles ==
    { <<>>,
      (<<N_d, <<"s">>, N_x>> :> Container(<<Mono(1, T_s, "none")>>)),
      (<<N_d, N_y>> :> Container(<<Text(<<"t">>, "none")>>)),
      (<<N_d, N_y>> :> Container(<<Text(<<"u">>, "none")>>)),
      (<<N_d, N_y>> :> Corrupt),
      (<<N_d, <<"g">>>> :> Container(<<Text(<<"t">>, "none")>>)) }

Folders == {(<<N_d, N_x>> :> x) @@ others : x \in ContentsOfX, others \in OtherFiles}

----------------------------------------------------------------------------
(* pack_translated_files as a state machine *)

InitPack ==
    /\ folder_path \in FolderPaths
    /\ fs \in Folders
    /\ fs0 = fs
    /\ fsRun = fs
    /\ patches \in PatchMaps
    /\ runs = 0
    /\ pc = "idle"
    /\ pending = {}
    /\ bundle_path = <<>>
    /\ bundle = <<>>
    /\ obj_i = 0
    /\ bundle_modified = FALSE
    /\ all_patch_entries = {}
    /\ mutated = {}
    /\ succeeded = {}
    /\ typetree_saves = <<>>
    /\ set_oks = <<>>
    /\ visited = {}
    /\ skipped = {}
    /\ ended = <<>>
    /\ failed = {}
    /\ reports = 0
    /\ applied_at = {}
    /\ saved_bundles = {}
    /\ ResolverIdle
    /\ StoreIdle
    /\ BinIdle
    /\ RestIdle

\* lines 970-1003: the containers are listed, the patches loaded and the
\* set of all patch entries built; without containers the run returns
StartRun ==
    /\ pc = "idle"
    /\ runs < MaxRuns
    /\ runs' = runs + 1
    /\ fsRun' = fs
    /\ pending' = _list_bundles(fs, folder_path)
    /\ pc' = IF _list_bundles(fs, folder_path) = {} THEN "idle" ELSE "loop"
    /\ all_patch_entries' = AllPatchEntries(patches)
    /\ mutated' = {}
    /\ succeeded' = {}
    /\ visited' = {}
    /\ skipped' = {}
    /\ ended' = <<>>
    /\ failed' = {}
    /\ applied_at' = {}
    /\ saved_bundles' = {}
    /\ UNCHANGED <<folder_path, fs, fs0, patches, bundle_path, bundle, obj_i,
                   bundle_modified, typetree_saves, set_oks, reports>>
    /\ UNCHANGED <<resolverVars, storeVars, binVars, restVars>>

\* an exception that leaves the loop instead of one container
HandlerLeavesLoop(pending_) == {}

\* lines 1128-1129: the except clause is inside the for loop, which goes
\* on with the containers still to come
HandlerNext(pending_) == pending_

\* lines 1005-1018: the next container is loaded and its textures read
OpenContainer ==
    /\ pc = "loop"
    /\ \E p \in pending :
        LET bad == {i \in 1..Len(fs[p].objects) :
                       /\ fs[p].objects[i].type = "Texture2D"
                       /\ fs[p].objects[i].fault = "read"}
            raised == ~fs[p].loadable \/ bad # {}
        IN  /\ bundle_path' = p
            /\ bundle' = fs[p].objects
            /\ bundle_modified' = FALSE
            /\ obj_i' = 1
            /\ typetree_saves' = [i \in 1..Len(fs[p].objects) |-> 0]
            /\ set_oks' = [i \in 1..Len(fs[p].objects) |-> 0]
            /\ skipped' = skipped \cup {<<p, i>> : i \in bad}
            /\ pc' = IF raised THEN "loop" ELSE "scan"
            /\ pending' = IF raised THEN HandlerNext(pending \ {p})
                          ELSE pending \ {p}
            /\ ended' = IF raised THEN Append(ended, p) ELSE ended
            /\ failed' = IF raised THEN failed \cup {p} ELSE failed
    /\ UNCHANGED <<folder_path, fs, fs0, fsRun, patches, runs,
                   all_patch_entries, mutated, succeeded, visited, reports,
                   applied_at, saved_bundles>>
    /\ UNCHANGED <<resolverVars, storeVars, binVars, restVars>>

\* lines 1020-1110: one turn of the loop over the objects
ScanObject ==
    /\ pc = "scan"
    /\ obj_i <= Len(bundle)
    /\ \E r \in {ScanOne(bundle, obj_i, bundle_modified, all_patch_entries,
                         patches,
                         applicable_suffixes(patches, PathStr(bundle_path)))} :
           /\ bundle' = r.objects
           /\ bundle_modified' = r.modified
           /\ all_patch_entries' = r.entries
           /\ succeeded' = succeeded \cup r.keys
           /\ applied_at' = applied_at
                  \cup {<<key, bundle_path, obj_i>> : key \in r.keys}
           /\ mutated' = IF r.applied THEN mutated \cup {bundle_path}
                         ELSE mutated
           /\ typetree_saves' = [typetree_saves EXCEPT ![obj_i] = @ + r.saves]
           /\ set_oks' = [set_oks EXCEPT ![obj_i] = @ + r.oks]
           /\ visited' = visited \cup {<<bundle_path, obj_i>>}
           /\ skipped' = IF r.fault THEN skipped \cup {<<bundle_path, obj_i>>}
                         ELSE skipped
           /\ obj_i' = obj_i + 1
           /\ pc' = IF r.kind = "raised" THEN "loop" ELSE "scan"
           /\ pending' = IF r.kind = "raised" THEN HandlerNext(pending)
                         ELSE pending
           /\ ended' = IF r.kind = "raised" THEN Append(ended, bundle_path)
                       ELSE ended
           /\ failed' = IF r.kind = "raised" THEN failed \cup {bundle_path}
                        ELSE failed
    /\ UNCHANGED <<folder_path, fs, fs0, fsRun, patches, runs, bundle_path,
                   reports, saved_bundles>>
    /\ UNCHANGED <<resolverVars, storeVars, binVars, restVars>>

\* a finalisation that does not look at the flag
FinalizeAlways(modified) == TRUE

\* line 1112: if bundle_modified
ShouldFinalize(modified) == modified

\* a backup that is taken whenever the container is saved
NeedsBackupAlways(files, path) == TRUE

\* line 1119: if not backup_path.exists()
NeedsBackup(files, path) == path \notin DOMAIN files

\* lines 1112-1121: after the scan, a modified container is backed up
\* unless its backup exists; shutil.copy2 copies or raises
Finalize ==
    /\ pc = "scan"
    /\ obj_i > Len(bundle)
    /\ LET target == backup_path(folder_path, bundle_path)
       IN  IF ~ShouldFinalize(bundle_modified)
           THEN /\ pc' = "loop"
                /\ ended' = Append(ended, bundle_path)
                /\ UNCHANGED <<fs, failed, pending>>
           ELSE IF ~NeedsBackup(fs, target)
           THEN /\ pc' = "save"
                /\ UNCHANGED <<fs, ended, failed, pending>>
           ELSE \E copied \in BOOLEAN :
                    IF copied
                    THEN /\ fs' = (target :> fs[bundle_path]) @@ fs
                         /\ pc' = "save"
                         /\ UNCHANGED <<ended, failed, pending>>
                    ELSE /\ pc' = "loop"
                         /\ pending' = HandlerNext(pending)
                         /\ ended' = Append(ended, bundle_path)
                         /\ failed' = failed \cup {bundle_path}
                         /\ UNCHANGED fs
    /\ UNCHANGED <<folder_path, fs0, fsRun, patches, runs, bundle_path,
                   bundle, obj_i, bundle_modified, all_patch_entries, mutated,
                   succeeded, typetree_saves, set_oks, visited, skipped,
                   reports, applied_at, saved_bundles>>
    /\ UNCHANGED <<resolverVars, storeVars, binVars, restVars>>

\* lines 1123-1126: bundle.save writes the container over its file, or
\* raises
Save ==
    /\ pc = "save"
    /\ \E saved \in BOOLEAN :
           /\ fs' = IF saved THEN [fs EXCEPT ![bundle_path] = Container(bundle)]
                    ELSE fs
           /\ failed' = IF saved THEN failed ELSE failed \cup {bundle_path}
           /\ pending' = IF saved THEN pending ELSE HandlerNext(pending)
           /\ saved_bundles' = IF saved THEN saved_bundles \cup {bundle_path}
                               ELSE saved_bundles
    /\ ended' = Append(ended, bundle_path)
    /\ pc' = "loop"
    /\ UNCHANGED <<folder_path, fs0, fsRun, patches, runs, bundle_path,
                   bundle, obj_i, bundle_modified, all_patch_entries, mutated,
                   succeeded, typetree_saves, set_oks, visited, skipped,
                   reports, applied_at>>
    /\ UNCHANGED <<resolverVars, storeVars, binVars, restVars>>

\* lines 1131-1134: the report of the entries left in all_patch_entries
Report ==
    /\ pc = "loop"
    /\ pending = {}
    /\ reports' = reports + 1
    /\ pc' = "idle"
    /\ UNCHANGED <<folder_path, fs, fs0, fsRun, patches, runs, pending,
                   bundle_path, bundle, obj_i, bundle_modified,
                   all_patch_entries, mutated, succeeded, typetree_saves,
                   set_oks, visited, skipped, ended, failed, applied_at,
                   saved_bundles>>
    /\ UNCHANGED <<resolverVars, storeVars, binVars, restVars>>

NextPack == StartRun \/ OpenContainer \/ ScanObject \/ Finalize \/ Save \/ Report

SpecPack == InitPack /\ [][NextPack]_vars

----------------------------------------------------------------------------
(* The Patch Pipeline: what a run of pack_translated_files leaves *)

\* the containers whose processing has ended in this run
Ended == {ended[i] : i \in 1..Len(ended)}

\* C11: a container whose processing has ended, and in which the run
\* replaced no text or texture and set no patch value, has its file as it
\* was when the run began, and no backup that was not there then.
C11_CleanUntouched ==
    \A c \in Ended :
        c \notin mutated =>
            /\ fs[c] = fsRun[c]
            /\ backup_path(folder_path, c) \in DOMAIN fs
                   => backup_path(folder_path, c) \in DOMAIN fsRun

\* C11: a container with objects was scanned to its end without anything
\* being put into it, in a run that did modify another container.
C11_Witness ==
    \E c \in Ended :
        /\ c \notin mutated /\ c \notin failed
        /\ fsRun[c].objects # <<>>
        /\ \E other \in Ended : other \in mutated /\ fs[other] # fsRun[other]

\* C12: whenever the backup of a container of the folder exists it holds
\* the container as it was before the first run, whatever the number of
\* runs since; and a container that is no longer as it was has a backup.
C12_BackupOnce ==
    \A c \in _list_bundles(fs0, folder_path) :
        /\ backup_path(folder_path, c) \in DOMAIN fs
               => fs[backup_path(folder_path, c)] = fs0[c]
        /\ fs[c] # fs0[c] => backup_path(folder_path, c) \in DOMAIN fs

\* The same for a folder path without a trailing separator, whose backup
\* folder lies beside the folder and not inside it.
BackupOnceBesideFolder ==
    ~IsPrefix(PathParts(folder_path), backup_folder(folder_path))
        => C12_BackupOnce

\* C13: from the start of a run on, the unresolved set is the set of all
\* keys of the patches less the keys for which a call of set_by_selector
\* returned True; and no step of a run adds a key to it.
C13_AuditSet ==
    /\ [](runs > 0 =>
            all_patch_entries = AllPatchEntries(patches) \ succeeded)
    /\ [][pc # "idle" => all_patch_entries' \subseteq all_patch_entries]_vars

\* C13: a run has ended in which some keys were resolved and others not.
C13_Witness ==
    /\ pc = "idle" /\ reports > 0
    /\ succeeded # {}
    /\ all_patch_entries # {}

\* C14: while a container is processed, save_typetree has been called at
\* most once for each object and only for one with a successful entry;
\* an object differs from what was loaded only if an entry of it was set
\* or a replacement was applied, and the flag is set only then.
C14_DirtyWriteBack ==
    pc \in {"scan", "save"} =>
        /\ \A i \in 1..Len(bundle) :
               /\ typetree_saves[i] <= 1
               /\ typetree_saves[i] = 1 => set_oks[i] >= 1
               /\ (bundle[i].type = "MonoBehaviour"
                   /\ bundle[i] # fs[bundle_path].objects[i])
                      => set_oks[i] >= 1
        /\ bundle_modified => bundle_path \in mutated

\* C14: in one container an object with entries, none of which resolved,
\* was passed over and a sibling was written back.
C14_Witness ==
    /\ pc = "scan"
    /\ \E i, j \in 1..Len(bundle) :
           /\ <<bundle_path, i>> \in visited
           /\ bundle[i].type = "MonoBehaviour"
           /\ todo_entries(patches,
                           SuffixList(applicable_suffixes(patches,
                                                          PathStr(bundle_path))),
                           FormatInt(bundle[i].path_id)) # <<>>
           /\ set_oks[i] = 0 /\ typetree_saves[i] = 0
           /\ typetree_saves[j] = 1

\* C15: when a call on an object of a container raised, every object of
\* that container has still been scanned by the time its processing ends.
C15_ObjectIsolation ==
    \A c \in Ended :
        (\E i \in 1..Len(fsRun[c].objects) : <<c, i>> \in skipped)
            => \A j \in 1..Len(fsRun[c].objects) : <<c, j>> \in visited

\* C16: when a run has ended, the processing of every container listed at
\* its start has ended, whether it raised or not, and the run has printed
\* its report.
C16_ContainerIsolation ==
    (pc = "idle" /\ runs > 0) =>
        /\ Ended = _list_bundles(fsRun, folder_path)
        /\ reports = runs

\* C16: a run has ended in which one container raised and a container
\* taken after it was saved.
C16_Witness ==
    /\ pc = "idle" /\ reports > 0
    /\ \E i, j \in 1..Len(ended) :
           /\ i < j
           /\ ended[i] \in failed
           /\ ended[j] \notin failed
           /\ fs[ended[j]] # fsRun[ended[j]]

----------------------------------------------------------------------------
(* The Extractor: what extract_localized_texts emits *)

\* the `_taggedText` list a record was read from: the place of its `_text`
\* leaf less the entry index and the field
GroupOf(rec) == SubSeq(rec.path, 1, Len(rec.path) - 2)

Sel_Scenario1 ==
    K_items \o <<"[", "0", "]", ".">> \o K_taggedText \o <<"[", "0", "]", ".">>
    \o K_text

\* C17: for the tree of scenario 1 the extractor emits exactly one record,
\* with the selector of the locale-0 entry, "Hello" as original and the
\* locale-2 text as secondary; and for every tree no two records come from
\* the same `_taggedText` group.
C17_OnePerGroup ==
    LET texts == Extracted(tree)
    IN  /\ tree = Scenario1 =>
               /\ Len(texts) = 1
               /\ texts[1].selector = Sel_Scenario1
               /\ texts[1].original = StrLeaf("Hello")
               /\ texts[1].chinese = StrLeaf("Ni hao")
        /\ \A i, j \in 1..Len(texts) :
               GroupOf(texts[i]) = GroupOf(texts[j]) => i = j

\* C18: every record the extractor emits has a non-empty original or a
\* non-empty secondary text.
C18_NoEmptyRecord ==
    LET texts == Extracted(tree)
    IN  \A i \in 1..Len(texts) :
            texts[i].original # StrLeaf("") \/ texts[i].chinese # StrLeaf("")

----------------------------------------------------------------------------
(* lib/bin.py: validate_bin_patch_map *)

HexDigits ==
    <<"0", "1", "2", "3", "4", "5", "6", "7", "8", "9",
      "a", "b", "c", "d", "e", "f">>
UpperHexDigits == <<"A", "B", "C", "D", "E", "F">>

IsHexChar(c) ==
    \/ \E i \in 1..Len(HexDigits) : HexDigits[i] = c
    \/ \E i \in 1..Len(UpperHexDigits) : UpperHexDigits[i] = c

\* the value of a hexadecimal digit, in either case
HexValue(c) ==
    IF \E i \in 1..Len(HexDigits) : HexDigits[i] = c
    THEN (CHOOSE i \in 1..Len(HexDigits) : HexDigits[i] = c) - 1
    ELSE (CHOOSE i \in 1..Len(UpperHexDigits) : UpperHexDigits[i] = c) + 9

\* text.replace(old, ""), for a one-character `old`
RECURSIVE Remove(_, _)
Remove(chars, old) ==
    IF chars = <<>> THEN <<>>
    ELSE (IF Head(chars) = old THEN <<>> ELSE <<Head(chars)>>)
         \o Remove(Tail(chars), old)

\* bytes.fromhex(text) for a text without blanks: the bytes of the digit
\* pairs, or ValueError for an odd digit or a character that is no digit
RECURSIVE FromHex(_)
FromHex(chars) ==
    IF chars = <<>> THEN [raised |-> FALSE, bytes |-> <<>>]
    ELSE IF Len(chars) = 1 \/ ~IsHexChar(chars[1]) \/ ~IsHexChar(chars[2])
    THEN [raised |-> TRUE, bytes |-> <<>>]
    ELSE LET rest == FromHex(SubSeq(chars, 3, Len(chars)))
         IN  [raised |-> rest.raised,
              bytes |-> IF rest.raised THEN <<>>
                        ELSE <<16 * HexValue(chars[1]) + HexValue(chars[2])>>
                             \o rest.bytes]

\* _normalize_hex_to_bytes(hex_str), lines 4-7
_normalize_hex_to_bytes(hex_str) ==
    FromHex(Strip(Remove(Remove(hex_str, " "), "_")))

\* a test that finds no source pattern in the map
NeverInMap(kb, byte_map_) == FALSE

\* line 25: if kb in byte_map
InByteMap(kb, byte_map_) == kb \in DOMAIN byte_map_

\* a turn of the loop that does not compare the lengths
CheckPairAnyLength(byte_map_, kb, vb) ==
    IF kb.raised \/ vb.raised THEN [exit |-> TRUE, byte_map |-> <<>>]
    ELSE IF kb.bytes \in DOMAIN byte_map_ THEN [exit |-> TRUE, byte_map |-> <<>>]
    ELSE [exit |-> FALSE, byte_map |-> (kb.bytes :> vb.bytes) @@ byte_map_]

\* One turn of the loop (lines 13-28) for the pair (k, v) with the bytes
\* kb and vb: sys.exit(1), or the map with the pair added
CheckPair(byte_map_, kb, vb) ==
    IF kb.raised \/ vb.raised THEN [exit |-> TRUE, byte_map |-> <<>>]
    ELSE IF Len(kb.bytes) # Len(vb.bytes) THEN [exit |-> TRUE, byte_map |-> <<>>]
    ELSE IF InByteMap(kb.bytes, byte_map_) THEN [exit |-> TRUE, byte_map |-> <<>>]
    ELSE [exit |-> FALSE, byte_map |-> (kb.bytes :> vb.bytes) @@ byte_map_]

\* the loop from the pair i on, byte_map_ being the map so far
RECURSIVE ValidateFrom(_, _, _)
ValidateFrom(mapping_, i, acc) ==
    IF acc.exit \/ i > Len(mapping_) THEN acc
    ELSE ValidateFrom(mapping_, i + 1,
                      CheckPair(acc.byte_map,
                                _normalize_hex_to_bytes(mapping_[i].k),
                                _normalize_hex_to_bytes(mapping_[i].v)))

\* validate_bin_patch_map(mapping), lines 10-29; a mapping is the list
\* of its (key, value) pairs in order, with distinct keys
validate_bin_patch_map(mapping_) ==
    ValidateFrom(mapping_, 1, [exit |-> FALSE, byte_map |-> <<>>])

\* the hex strings of the model: one byte written in several ways, other
\* bytes, two bytes, an odd digit, a character that is no digit
SourceHex ==
    {<<"0", "a">>, <<"0", "A">>, <<"0", " ", "a">>, <<"0", "_", "a">>,
     <<" ", "0", "a">>, <<"0", "b">>, <<"0", "a", "0", "b">>, <<"0">>,
     <<"0", "g">>, <<>>}

DestHex == {<<"f", "f">>, <<"F", "_", "F">>, <<"f", "f", "f", "f">>, <<"f">>}

HexPairs == {[k |-> k, v |-> v] : k \in SourceHex, v \in DestHex}

\* mappings of one and of two pairs
Mappings ==
    {<<>>}
    \cup {<<pair>> : pair \in HexPairs}
    \cup {pairs \in HexPairs \X HexPairs : pairs[1].k # pairs[2].k}

InitBin ==
    /\ mapping \in Mappings
    /\ bin_exit = "none"
    /\ byte_map = <<>>
    /\ ResolverIdle
    /\ StoreIdle
    /\ PackIdle
    /\ RestIdle

\* the call BIN_PATCH = validate_bin_patch_map(BIN_PATCH_MAP)
Validate ==
    /\ bin_exit = "none"
    /\ \E r \in {validate_bin_patch_map(mapping)} :
           /\ bin_exit' = IF r.exit THEN "exit" ELSE "returned"
           /\ byte_map' = r.byte_map
    /\ UNCHANGED <<mapping, resolverVars, storeVars, packVars, restVars>>

NextBin == Validate

SpecBin == InitBin /\ [][NextBin]_vars

\* a hex string as the claim reads it: blanks and underscores left out,
\* letters in upper case
Upper(c) ==
    IF \E i \in 1..Len(UpperHexDigits) : HexDigits[i + 10] = c
    THEN UpperHexDigits[(CHOOSE i \in 1..Len(UpperHexDigits) : HexDigits[i + 10] = c)]
    ELSE c

Canon(hex_str) ==
    LET kept == SelectSeq(hex_str, LAMBDA c : c # " " /\ c # "_")
    IN  [i \in 1..Len(kept) |-> Upper(kept[i])]

ValidHex(hex_str) ==
    /\ Len(Canon(hex_str)) % 2 = 0
    /\ \A i \in 1..Len(Canon(hex_str)) : IsHexChar(Canon(hex_str)[i])

\* the mapping is ambiguous or ill-formed
IllFormed(mapping_) ==
    \/ \E i \in 1..Len(mapping_) :
           \/ ~ValidHex(mapping_[i].k)
           \/ ~ValidHex(mapping_[i].v)
           \/ Len(Canon(mapping_[i].k)) # Len(Canon(mapping_[i].v))
    \/ \E i, j \in 1..Len(mapping_) :
           i # j /\ Canon(mapping_[i].k) = Canon(mapping_[j].k)

\* C19: after validate_bin_patch_map, if two keys are the same bytes but
\* for blanks, underscores and case, or a source and its destination
\* differ in length, or one is not valid hex, the process has exited and
\* returned no map; otherwise it returned a map with one entry per pair,
\* the bytes of each source mapped to the bytes of its destination.
C19_ValidateBinPatchMap ==
    bin_exit # "none" =>
        IF IllFormed(mapping)
        THEN bin_exit = "exit" /\ byte_map = <<>>
        ELSE /\ bin_exit = "returned"
             /\ Cardinality(DOMAIN byte_map) = Len(mapping)
             /\ \A i \in 1..Len(mapping) :
                    byte_map[_normalize_hex_to_bytes(mapping[i].k).bytes]
                        = _normalize_hex_to_bytes(mapping[i].v).bytes

\* C19: the process exited on two keys that are written differently and
\* are the same bytes, each pair being well-formed by itself.
C19_Witness ==
    /\ bin_exit = "exit"
    /\ Len(mapping) = 2
    /\ mapping[1].k # mapping[2].k
    /\ Canon(mapping[1].k) = Canon(mapping[2].k)
    /\ \A i \in 1..2 :
           /\ ValidHex(mapping[i].k) /\ ValidHex(mapping[i].v)
           /\ Len(Canon(mapping[i].k)) = Len(Canon(mapping[i].v))

----------------------------------------------------------------------------
(* The Patch Store: a source that cannot be read *)

\* the header cells that are texts, as column names
TextHeaders(headers) ==
    {LowerAll(Strip(headers[c].v)) :
        c \in {d \in 1..Len(headers) : headers[d].t = "text"}}

\* the source is missing or unreadable, or has no patch sheet, or its
\* sheet has no column of one of the three needed names
Defective(sheet) ==
    \/ sheet.status \in {"missing", "unreadable", "nosheet"}
    \/ /\ sheet.status = "ok"
       /\ ~(needed \subseteq TextHeaders(sheet.headers))

\* a source that contributes nothing: a patch sheet without data rows
NoRows == Sheet("ok", PATCH_HEADER, <<>>)

\* what the load under way has come to: an exception, or the merged map
Outcome ==
    [raised |-> phase = "raised",
     merged |-> IF phase = "raised" THEN <<>> ELSE merged]

\* C20: when the load is over, a spreadsheet source that is missing,
\* unreadable, without patch sheet or without a needed column has raised
\* nothing and contributed nothing: the load came to what the other
\* sources alone come to.
C20_SourceLocalFailure ==
    phase \in {"done", "raised"} =>
        /\ Defective(xlsxSheet)
               => Outcome = load_patches_from_files(yamlFile, NoRows, infoSheet)
        /\ Defective(infoSheet)
               => Outcome = load_patches_from_files(yamlFile, xlsxSheet, NoRows)

\* The same for sheets whose header cells hold no number.
SourceLocalFailureOfTextHeaders ==
    (~HeaderRaises(xlsxSheet.headers) /\ ~HeaderRaises(infoSheet.headers))
        => C20_SourceLocalFailure

----------------------------------------------------------------------------
(* The dump of the patch store and its reload *)

\* the keys of a dumped document are in ascending order, none twice
SortedDoc(doc) ==
    \A g \in 1..Len(doc) : \A h \in (g + 1)..Len(doc) :
        \/ LessStr(doc[g].suffix.text, doc[h].suffix.text)
        \/ /\ doc[g].suffix.text = doc[h].suffix.text
           /\ LessStr(doc[g].pid.text, doc[h].pid.text)

\* C21: once dump_patches_from_files has written the merged map, a load
\* from the written file and the same two workbooks gives the same merged
\* map, the next dump writes the same document, and the keys of a written
\* document are sorted.
C21_DumpRoundTrip ==
    /\ (dumps >= 1 /\ phase = "done") => merged = prevMerged
    /\ dumps >= 2 => lastDoc = prevDoc
    /\ SortedDoc(lastDoc)

\* C21, its case: two dumps and a reload of a map with two path ids, one
\* of which had to be written in quotes
C21_Witness ==
    /\ dumps = 2
    /\ phase = "done"
    /\ Len(lastDoc) >= 2
    /\ \E g \in 1..Len(lastDoc) : lastDoc[g].pid.style = "quoted"
    /\ \E g \in 1..Len(lastDoc) : Len(lastDoc[g].entries) >= 2

----------------------------------------------------------------------------
(* The order of the entry lists *)

\* the source the next step of the load reads
StepSource ==
    CASE phase = "start" -> 1
      [] phase = "yaml" -> 2
      [] phase = "xlsx" -> 3

\* the place of the first and of the last record with this key
FirstOf(recs, key) ==
    CHOOSE i \in 1..Len(recs) :
        KeyOf(recs[i]) = key /\ \A j \in 1..(i - 1) : KeyOf(recs[j]) # key

LastOf(recs, key) ==
    CHOOSE i \in 1..Len(recs) :
        KeyOf(recs[i]) = key /\ \A j \in (i + 1)..Len(recs) : KeyOf(recs[j]) # key

\* what C26 asks of a step that merges the records recs, whose keys are
\* keys, into the map old and gives the map new
KeepsOrder(old_map, new_map, recs, keys) ==
    /\ \A suffix \in DOMAIN old_map :
           /\ suffix \in DOMAIN new_map
           /\ DOMAIN old_map[suffix] \subseteq DOMAIN new_map[suffix]
    /\ \A suffix \in DOMAIN new_map : \A pid \in DOMAIN new_map[suffix] :
           LET old == EntriesOf(old_map, suffix, pid)
               new == new_map[suffix][pid]
               Key(e) == <<suffix, pid, e.object_selector>>
           IN  /\ Len(old) <= Len(new)
               /\ \A i \in 1..Len(old) :
                      /\ new[i].object_selector = old[i].object_selector
                      /\ Key(old[i]) \notin keys => new[i] = old[i]
                      /\ Key(old[i]) \in keys
                             => new[i].patched_value
                                    = recs[LastOf(recs, Key(old[i]))].value
               /\ \A i \in (Len(old) + 1)..Len(new) :
                      /\ Key(new[i]) \in keys
                      /\ \A j \in 1..Len(old) :
                             old[j].object_selector # new[i].object_selector
                      /\ \A j \in (i + 1)..Len(new) :
                             FirstOf(recs, Key(new[i]))
                                 < FirstOf(recs, Key(new[j]))

UpsertKeepsOrder ==
    phase \in {"start", "yaml", "xlsx"} =>
        \E recs \in {SourceRecords(StepSource)} :
            \E keys \in {{key \in {KeyOf(recs[i]) : i \in 1..Len(recs)} :
                             IsKey(key)}} :
                KeepsOrder(merged, merged', recs, keys)

\* C26: a step of the load that merges the records of one source leaves
\* every entry list with its former entries at their former places, the
\* value alone replaced for a key the source supplies and nothing changed
\* for the others, and puts the entries of new selectors behind them in
\* the order the source first names them.
C26_UpsertKeepsOrder == [][UpsertKeepsOrder]_vars

\* C26, its case: addresses.txt gave the list [s, t], translate.xlsx gave
\* s another value, and the list is [s, t] with the value of s replaced
C26_Witness ==
    /\ phase = "xlsx"
    /\ dumps = 0
    /\ yamlFile = <<YGroup(NumCell(42),
                           <<YEntry(Sel_s, V_old), YEntry(Sel_t, V_old)>>)>>
    /\ EntriesOf(merged, S_a.v, Pid42)
           = <<[object_selector |-> Sel_s, patched_value |-> TextCell(V_new)],
               [object_selector |-> Sel_t, patched_value |-> TextCell(V_old)]>>

----------------------------------------------------------------------------
(* The value of a spreadsheet row *)

\* the workbook the next step of the load reads
StepSheet == IF phase = "yaml" THEN xlsxSheet ELSE infoSheet

\* the text of a cell, trimmed; nothing for an empty cell
Trimmed(cell) ==
    CASE cell.t = "none" -> <<>>
      [] cell.t = "text" -> Strip(cell.v)
      [] cell.t = "num" -> FormatInt(cell.v)

\* the text of a key cell, trimmed; a cell holding 0 counts as empty
KeyText(cell) == IF cell = NumCell(0) THEN <<>> ELSE Trimmed(cell)

\* a cell of a key column the row loop can read: empty, a text, or 0
ReadableKey(cell) == cell.t # "num" \/ cell.v = 0

\* the value C28 gives a row: Translated if not empty, else Original
RowValue(row) ==
    IF Trimmed(row.translated) # <<>> THEN Trimmed(row.translated)
    ELSE Trimmed(row.original)

\* the row has a key and a value
Contributes(row) ==
    /\ KeyText(row.suffix) # <<>>
    /\ KeyText(row.pathid) # <<>>
    /\ KeyText(row.selector) # <<>>
    /\ RowValue(row) # <<>>

RowKey(row) ==
    <<KeyText(row.suffix), KeyText(row.pathid), KeyText(row.selector)>>

\* what C28 asks of a step that reads the rows and turns old_map into
\* new_map
RowValuesMerged(old_map, new_map, rows) ==
    \A suffix \in DOMAIN new_map \cup {RowKey(rows[i])[1] : i \in 1..Len(rows)} :
    \A pid \in (IF suffix \in DOMAIN new_map THEN DOMAIN new_map[suffix] ELSE {})
               \cup {RowKey(rows[i])[2] : i \in 1..Len(rows)} :
    \A selector \in {EntriesOf(new_map, suffix, pid)[i].object_selector :
                        i \in 1..Len(EntriesOf(new_map, suffix, pid))}
                    \cup {RowKey(rows[i])[3] : i \in 1..Len(rows)} :
        LET key == <<suffix, pid, selector>>
            giving == {i \in 1..Len(rows) :
                          RowKey(rows[i]) = key /\ Contributes(rows[i])}
            last == CHOOSE i \in giving : \A j \in giving : j <= i
        IN  ValuesOf(new_map, key)
                = IF giving = {} THEN ValuesOf(old_map, key)
                  ELSE {TextCell(RowValue(rows[last]))}

\* C28: a step that reads a usable patch sheet whose key cells are texts
\* or empty gives every key the value of the last row that has this key
\* and a value, which is the row's Translated cell, trimmed, if that is
\* not empty, and its Original cell, trimmed, otherwise; a key for which
\* no row has a value keeps what was merged before.
RowValueStep ==
    (/\ phase \in {"yaml", "xlsx"}
     /\ SheetUsable(StepSheet)
     /\ \A i \in 1..Len(StepSheet.rows) :
            /\ ReadableKey(StepSheet.rows[i].suffix)
            /\ ReadableKey(StepSheet.rows[i].pathid)
            /\ ReadableKey(StepSheet.rows[i].selector))
        => \E rows \in {VisibleRows(StepSheet)} :
               RowValuesMerged(merged, merged', rows)

----------------------------------------------------------------------------
(* translate_tool.py: _add_sheet_with_parsed_data; lib/sheet.py *)

SHEETNAME_MAXLEN == 31

\* the characters Excel refuses in a sheet name (sheet.py line 11)
invalid == {"[", "]", ":", "*", "?", "/", "\\"}

\* sanitize_sheet_name(name), sheet.py lines 9-15
sanitize_sheet_name(name) ==
    LET cleaned == [i \in 1..Len(name) |->
                       IF name[i] \in invalid THEN "_" ELSE name[i]]
        cut == IF Len(cleaned) > SHEETNAME_MAXLEN
               THEN SubSeq(cleaned, 1, SHEETNAME_MAXLEN)
               ELSE cleaned
    IN  IF cut = <<>> THEN <<"S", "h", "e", "e", "t">> ELSE cut

\* f"{sheet_name}_{suffix}"
Numbered(name, suffix) == name \o <<"_">> \o FormatInt(suffix)

\* lines 584-586: the first suffix from 1 on for which the numbered name
\* is not in `existing`
FirstFreeSuffix(name, names) ==
    CHOOSE n \in 1..(Cardinality(names) + 1) :
        /\ Numbered(name, n) \notin names
        /\ \A m \in 1..(n - 1) : Numbered(name, m) \in names

\* lines 581-587: the name the function settles on
FinalSheetName(base, names) ==
    LET name == sanitize_sheet_name(base)
    IN  IF name \in names
        THEN sanitize_sheet_name(Numbered(name, FirstFreeSuffix(name, names)))
        ELSE name

\* the digits that follow position p of a name
RECURSIVE DigitRun(_, _)
DigitRun(name, p) ==
    IF p > Len(name) \/ ~IsDigitChar(name[p]) THEN <<>>
    ELSE <<name[p]>> \o DigitRun(name, p + 1)

\* openpyxl's avoid_duplicate_name, which the title setter of a new sheet
\* applies: a title that is, whatever the case, the title of a sheet gets
\* the next number after the highest that follows the title in a name
avoid_duplicate_name(names, value) ==
    LET n == Len(value)
        taken == \E k \in 1..Len(names) : LowerAll(names[k]) = LowerAll(value)
        counts ==
            {ParseInt(DigitRun(names[k], p + n)) :
                <<k, p>> \in {kp \in (1..Len(names)) \X (1..SHEETNAME_MAXLEN + 2) :
                    /\ kp[2] + n - 1 <= Len(names[kp[1]])
                    /\ LowerAll(SubSeq(names[kp[1]], kp[2], kp[2] + n - 1))
                           = LowerAll(value)
                    /\ DigitRun(names[kp[1]], kp[2] + n) # <<>>}}
        highest == IF counts = {} THEN 0
                   ELSE CHOOSE c \in counts : \A d \in counts : d <= c
    IN  IF taken THEN value \o FormatInt(highest + 1) ELSE value

\* wb.create_sheet(title=...), line 588: the title the new sheet gets
create_sheet(names, title) == avoid_duplicate_name(names, title)

MaxSheetCalls == 3

Name30 == [i \in 1..30 |-> "m"]
Name31 == [i \in 1..31 |-> "n"]
Name32 == Name31 \o <<"x">>

\* base names: short ones, one of them in another case and one with a
\* character Excel refuses; names of 30, 31 and 32 characters; no name
BaseNames ==
    {<<"a", "b">>, <<"A", "B">>, <<"a", "/", "b">>, <<"a", "_", "b">>,
     Name30, Name31, Name32, <<>>}

InitSheet ==
    /\ wb_sheetnames \in {<<>>, <<<<"a", "b">>>>, <<Name31>>}
    /\ base_sheet_name = <<>>
    /\ existing = {}
    /\ sheet_name = <<>>
    /\ created_title = <<>>
    /\ sheet_calls = 0
    /\ ResolverIdle
    /\ StoreIdle
    /\ PackIdle
    /\ BinIdle
    /\ PatchIdle
    /\ TransIdle

\* _add_sheet_with_parsed_data(wb, base_sheet_name, data), lines 577-594
AddSheet ==
    /\ sheet_calls < MaxSheetCalls
    /\ \E base \in BaseNames :
       \E names \in {{wb_sheetnames[k] : k \in 1..Len(wb_sheetnames)}} :
       \E name \in {FinalSheetName(base, names)} :
       \E title \in {create_sheet(wb_sheetnames, name)} :
           /\ base_sheet_name' = base
           /\ existing' = names
           /\ sheet_name' = name
           /\ created_title' = title
           /\ wb_sheetnames' = Append(wb_sheetnames, title)
    /\ sheet_calls' = sheet_calls + 1
    /\ UNCHANGED <<resolverVars, storeVars, packVars, binVars, patchVars,
                   transVars>>

NextSheet == AddSheet

SpecSheet == InitSheet /\ [][NextSheet]_vars

\* C22: after every call of _add_sheet_with_parsed_data, the name it
\* returned is not the name of a sheet the workbook had before the call,
\* and it is the title of the sheet the call created.
C22_NoNameCollision ==
    sheet_calls > 0 =>
        /\ sheet_name \notin existing
        /\ sheet_name = created_title

\* the same for base names that, sanitized and numbered, stay within 31
\* characters, in workbooks without a title that differs by case only
ShortNamesNoCollision ==
    (/\ sheet_calls > 0
     /\ Len(sanitize_sheet_name(base_sheet_name)) + 3 <= SHEETNAME_MAXLEN
     /\ \A k \in 1..Len(wb_sheetnames) - 1 :
            LowerAll(wb_sheetnames[k]) = LowerAll(sheet_name)
                => wb_sheetnames[k] = sheet_name)
        => /\ sheet_name \notin existing
           /\ sheet_name = created_title

----------------------------------------------------------------------------
(* translate_tool.py: perform_binary_patch *)

\* a path with no file, and a file with its bytes
NoFile == [t |-> "absent"]
File(bytes) == [t |-> "file", bytes |-> bytes]

\* data.count(src): the occurrences that do not overlap, from the left;
\* the empty pattern is found before every byte and at the end
RECURSIVE CountOf(_, _)
CountOf(bytes, src) ==
    IF src = <<>> THEN Len(bytes) + 1
    ELSE IF Len(bytes) < Len(src) THEN 0
    ELSE IF SubSeq(bytes, 1, Len(src)) = src
    THEN 1 + CountOf(SubSeq(bytes, Len(src) + 1, Len(bytes)), src)
    ELSE CountOf(Tail(bytes), src)

\* data.replace(src, dst)
RECURSIVE Replace(_, _, _)
Replace(bytes, src, dst) ==
    IF src = <<>>
    THEN IF bytes = <<>> THEN dst
         ELSE dst \o <<Head(bytes)>> \o Replace(Tail(bytes), src, dst)
    ELSE IF Len(bytes) < Len(src) THEN bytes
    ELSE IF SubSeq(bytes, 1, Len(src)) = src
    THEN dst \o Replace(SubSeq(bytes, Len(src) + 1, Len(bytes)), src, dst)
    ELSE <<Head(bytes)>> \o Replace(Tail(bytes), src, dst)

\* byte_map.items() of the map validate_bin_patch_map returned for an
\* accepted mapping: its pairs as bytes, in the order of the mapping
Items(mapping_, byte_map_) ==
    [i \in 1..Len(mapping_) |->
        LET src == _normalize_hex_to_bytes(mapping_[i].k).bytes
        IN  [src |-> src, dst |-> byte_map_[src]]]

\* lines 1225-1230: the loop over the pairs from pair i on
RECURSIVE ReplaceFrom(_, _, _)
ReplaceFrom(items, i, acc) ==
    IF i > Len(items) THEN acc
    ELSE LET count == CountOf(acc.data, items[i].src)
         IN  ReplaceFrom(items, i + 1,
                 IF count > 0
                 THEN [data |-> Replace(acc.data, items[i].src, items[i].dst),
                       total |-> acc.total + count]
                 ELSE acc)

\* a run that takes no backup
KeepBackup(file, backup) == backup

\* lines 1236-1240: the backup after the step: a copy of the file if there
\* was none
BackupIfMissing(file, backup) == IF backup = NoFile THEN file ELSE backup

MaxPatchRuns == 2

H_0a == <<"0", "a">>
H_0b == <<"0", "b">>
H_ff == <<"f", "f">>

\* mappings: none; one pair (found or not in a file of 0a and 0b bytes,
\* one or two bytes long, the empty pattern, unequal lengths, no hex);
\* two pairs of which the second undoes or follows the first; the same
\* source twice
PatchMappings ==
    {<<>>,
     <<Pair(H_0a, H_ff)>>,
     <<Pair(<<"0", "A", " ", "0", "b">>, <<"f", "f", "_", "f", "f">>)>>,
     <<Pair(H_ff, H_0a)>>,
     <<Pair(<<>>, <<>>)>>,
     <<Pair(H_0a, <<"f", "f", "f", "f">>)>>,
     <<Pair(<<"0", "g">>, H_ff)>>,
     <<Pair(H_0a, H_0b), Pair(H_0b, H_0a)>>,
     <<Pair(H_0a, H_ff), Pair(H_ff, H_0b)>>,
     <<Pair(H_0a, H_ff), Pair(<<"0", "A">>, H_0b)>>}

MaxFileLen == 3

\* files of up to MaxFileLen bytes 0a and 0b
FileContents ==
    UNION {[1..n -> {10, 11}] : n \in 0..MaxFileLen}

InitPatch ==
    /\ file_path_data \in {NoFile} \cup {File(bytes) : bytes \in FileContents}
    /\ backup_data \in {NoFile, File(<<255>>)}
    /\ bp_mapping = <<>>
    /\ bp_pc = "idle"
    /\ bp_data = <<>>
    /\ read_data = <<>>
    /\ total_replacements = 0
    /\ bp_runs = 0
    /\ file_writes = 0
    /\ backup_writes = 0
    /\ ResolverIdle
    /\ StoreIdle
    /\ PackIdle
    /\ BinIdle
    /\ SheetIdle
    /\ TransIdle

\* lines 1203-1234: the file is looked for, the mapping validated, the
\* file read and every pattern replaced in memory; the run exits, returns
\* because nothing was found, or goes on to the backup
StartPatch ==
    /\ bp_pc \in {"idle", "exit"}
    /\ bp_runs < MaxPatchRuns
    /\ bp_runs' = bp_runs + 1
    /\ \E m \in PatchMappings :
       \E v \in {validate_bin_patch_map(m)} :
           /\ bp_mapping' = m
           /\ IF file_path_data = NoFile \/ v.exit
              THEN /\ bp_pc' = "exit"
                   /\ read_data' = <<>>
                   /\ bp_data' = <<>>
                   /\ total_replacements' = 0
              ELSE \E r \in {ReplaceFrom(Items(m, v.byte_map), 1,
                                         [data |-> file_path_data.bytes,
                                          total |-> 0])} :
                       /\ read_data' = file_path_data.bytes
                       /\ bp_data' = r.data
                       /\ total_replacements' = r.total
                       /\ bp_pc' = IF r.total = 0 THEN "idle" ELSE "backup"
    /\ UNCHANGED <<file_path_data, backup_data, file_writes, backup_writes,
                   resolverVars, storeVars, packVars, binVars, sheetVars,
                   transVars>>

\* lines 1236-1240: the backup
BackupStep ==
    /\ bp_pc = "backup"
    /\ backup_data' = BackupIfMissing(file_path_data, backup_data)
    /\ backup_writes' = IF backup_data' # backup_data THEN backup_writes + 1
                        ELSE backup_writes
    /\ bp_pc' = "write"
    /\ UNCHANGED <<file_path_data, bp_mapping, bp_data, read_data,
                   total_replacements, bp_runs, file_writes, resolverVars,
                   storeVars, packVars, binVars, sheetVars, transVars>>

\* lines 1242-1243: the file is written
WriteStep ==
    /\ bp_pc = "write"
    /\ file_path_data' = File(bp_data)
    /\ file_writes' = file_writes + 1
    /\ bp_pc' = "idle"
    /\ UNCHANGED <<backup_data, bp_mapping, bp_data, read_data,
                   total_replacements, bp_runs, backup_writes, resolverVars,
                   storeVars, packVars, binVars, sheetVars, transVars>>

NextPatch == StartPatch \/ BackupStep \/ WriteStep

SpecPatch == InitPatch /\ [][NextPatch]_vars

\* the pattern is somewhere in the bytes
OccursIn(pattern, bytes) ==
    \E i \in 1..(Len(bytes) + 1) :
        /\ i + Len(pattern) - 1 <= Len(bytes)
        /\ SubSeq(bytes, i, i + Len(pattern) - 1) = pattern

\* the source patterns of the mapping of the run
SourcePatterns ==
    {_normalize_hex_to_bytes(bp_mapping[i].k).bytes : i \in 1..Len(bp_mapping)}

\* C23: the file is written only when a backup exists; a backup that
\* exists is never written again; and file and backup are written only in
\* a run in whose file a source pattern of the mapping occurs.
BackupBeforeWrite ==
    /\ file_writes' # file_writes => backup_data # NoFile
    /\ file_path_data' # file_path_data => backup_data # NoFile
    /\ backup_data # NoFile
           => backup_data' = backup_data /\ backup_writes' = backup_writes
    /\ (\/ file_writes' # file_writes
        \/ backup_writes' # backup_writes
        \/ file_path_data' # file_path_data
        \/ backup_data' # backup_data)
           => \E pattern \in SourcePatterns : OccursIn(pattern, read_data)

C23_BackupBeforeWrite == [][BackupBeforeWrite]_vars

\* C23, its case: a first run took the backup and wrote the file, a
\* second run wrote the file again, and the backup is what the first run
\* read
C23_Witness ==
    /\ bp_runs = 2
    /\ bp_pc = "idle"
    /\ file_writes = 2
    /\ backup_writes = 1
    /\ backup_data # file_path_data
    /\ backup_data # File(read_data)

\* C29: in a run that got past the validation of its mapping, the bytes in
\* memory after all replacements are as many as the bytes read, and the
\* file once written has as many bytes as the file read.
C29_LengthPreserved ==
    /\ bp_pc \in {"backup", "write"} => Len(bp_data) = Len(read_data)
    /\ (bp_pc = "idle" /\ total_replacements > 0)
           => /\ file_path_data = File(bp_data)
              /\ Len(file_path_data.bytes) = Len(read_data)

\* C29, its case: a file was written in which two patterns were replaced
\* one after the other
C29_Witness ==
    /\ bp_pc = "idle"
    /\ file_writes > 0
    /\ Len(bp_mapping) = 2
    /\ total_replacements >= 2
    /\ file_path_data # File(read_data)
    /\ Len(read_data) = MaxFileLen

----------------------------------------------------------------------------
(* bundle_info.py: _set_by_selector *)

\* line 242, the lookahead (?![^\[\]]*]): after position p come
\* characters that are no brackets and then a closing bracket
BeforeClosingBracket(selector, p) ==
    \E q \in (p + 1)..Len(selector) :
        /\ selector[q] = "]"
        /\ \A r \in (p + 1)..(q - 1) : selector[r] \notin {"[", "]"}

\* re.split(r'\.(?![^\[\]]*])', selector), line 242: the selector cut at
\* every dot that is not inside brackets
RECURSIVE SplitKeys(_, _)
SplitKeys(selector, from) ==
    LET dots == {p \in from..Len(selector) :
                    selector[p] = "." /\ ~BeforeClosingBracket(selector, p)}
        first == CHOOSE p \in dots : \A q \in dots : p <= q
    IN  IF dots = {} THEN <<SubSeq(selector, from, Len(selector))>>
        ELSE <<SubSeq(selector, from, first - 1)>>
             \o SplitKeys(selector, first + 1)

\* '[' in key
HasBracket(key) == \E i \in 1..Len(key) : key[i] = "["

\* key.split('[', 1) of a key with a bracket
SplitBracket(key) ==
    LET p == CHOOSE i \in 1..Len(key) :
                 key[i] = "[" /\ \A j \in 1..(i - 1) : key[j] # "["
    IN  [base |-> SubSeq(key, 1, p - 1),
         idx_str |-> SubSeq(key, p + 1, Len(key))]

\* idx_str.rstrip(']')
RECURSIVE RStripBracket(_)
RStripBracket(chars) ==
    IF chars # <<>> /\ chars[Len(chars)] = "]"
    THEN RStripBracket(SubSeq(chars, 1, Len(chars) - 1))
    ELSE chars

\* int(idx_str): blanks around, a sign, digits with single underscores
\* between them; ValueError for anything else
PyInt(idx_str) ==
    LET stripped == Strip(idx_str)
        signed == stripped # <<>> /\ stripped[1] \in {"-", "+"}
        body == IF signed THEN Tail(stripped) ELSE stripped
        ok == /\ body # <<>>
              /\ \A i \in 1..Len(body) : IsDigitChar(body[i]) \/ body[i] = "_"
              /\ body[1] # "_" /\ body[Len(body)] # "_"
              /\ \A i \in 1..(Len(body) - 1) : ~(body[i] = "_" /\ body[i + 1] = "_")
        n == ParseInt(SelectSeq(body, LAMBDA c : c # "_"))
    IN  IF ~ok THEN [raised |-> TRUE, v |-> 0]
        ELSE [raised |-> FALSE,
              v |-> IF signed /\ stripped[1] = "-" THEN 0 - n ELSE n]

\* the characters of the texts the leaves of the model hold
LeafChars(text) ==
    CASE text = "Hello" -> <<"H", "e", "l", "l", "o">>
      [] text = "Ni hao" -> <<"N", "i", " ", "h", "a", "o">>
      [] text = "Other" -> <<"O", "t", "h", "e", "r">>
      [] text = "Xin chao" -> <<"X", "i", "n", " ", "c", "h", "a", "o">>
      [] text = "" -> <<>>

\* `name in current` (lines 248, 257, 265, 277): a key of a dict, an
\* element of a list, a part of a text; TypeError for a number
Member(current, name) ==
    CASE IsDict(current) -> IF HasKey(current, name) THEN "true" ELSE "false"
      [] IsList(current) ->
             IF \E i \in 1..Len(current.v) :
                    /\ current.v[i].t = "str"
                    /\ LeafChars(current.v[i].v) = name
             THEN "true" ELSE "false"
      [] current.t = "str" ->
             IF IsSubstring(name, LeafChars(current.v)) THEN "true" ELSE "false"
      [] current.t = "int" -> "raised"

\* _set_by_selector from `current` on, for the keys left: the result and
\* `current` as the call leaves it
RECURSIVE LegacyWalk(_, _, _)
LegacyWalk(current, keys, value) ==
    LET key == Head(keys)
        last == Len(keys) = 1
        name == IF HasBracket(key) THEN SplitBracket(key).base ELSE key
        member == Member(current, name)
        Out(r) == [ret |-> r, tree |-> current]
    IN  IF member # "true" THEN Out(member)
        \* current[name] of a list or of a text: TypeError
        ELSE IF ~IsDict(current) THEN Out("raised")
        ELSE IF ~HasBracket(key)
        THEN IF last
             THEN [ret |-> "true",
                   tree |-> Assign(current, KeyStep(name), value)]
             ELSE LET r == LegacyWalk(Subscript(current, KeyStep(name)),
                                      Tail(keys), value)
                  IN  [ret |-> r.ret,
                       tree |-> Assign(current, KeyStep(name), r.tree)]
        ELSE LET arr == Subscript(current, KeyStep(name))
                 n == PyInt(RStripBracket(SplitBracket(key).idx_str))
                 at == IF n.v < 0 THEN n.v + Len(arr.v) ELSE n.v
             IN  IF ~IsList(arr) THEN Out("false")
                 ELSE IF n.raised THEN Out("raised")
                 ELSE IF ~(Len(arr.v) > n.v) THEN Out("false")
                 \* arr[int(idx_str)] below -len(arr): IndexError
                 ELSE IF at < 0 THEN Out("raised")
                 ELSE LET elem == arr.v[at + 1]
                          Put(e) == Assign(current, KeyStep(name),
                                           Assign(arr, IdxStep(at), e))
                      IN  IF last
                          THEN IF IsDict(elem) /\ HasKey(elem, K_text)
                               THEN [ret |-> "true",
                                     tree |-> Put(Assign(elem, KeyStep(K_text),
                                                         value))]
                               ELSE Out("false")
                          ELSE LET r == LegacyWalk(elem, Tail(keys), value)
                               IN  [ret |-> r.ret, tree |-> Put(r.tree)]

\* _set_by_selector(tree, selector, value), lines 239-280
legacy_set_by_selector(tree_, selector, value) ==
    LegacyWalk(tree_, SplitKeys(selector, 1), value)

\* selectors with a negative index, with blanks in the brackets, with an
\* index behind a field of the element
LegacySelectors ==
    Selectors
    \cup {<<"a", "[", "-", "1", "]">>,                   \* a[-1]
          <<"a", "[", " ", "0", " ", "]", ".", "a">>,    \* a[ 0 ].a
          <<"a", "[", "0", ".", "0", "]">>,               \* a[0.0]
          K_items \o <<"[", "0", "]", ".">> \o K_taggedText
              \o <<"[", "1", "]">>}       \* _items[0]._taggedText[1]

InitLegacy ==
    /\ tree \in Trees
    /\ before = tree
    /\ lastSel = <<>>
    /\ lastVal = StrLeaf("")
    /\ ret = "none"
    /\ lastPath = <<>>
    /\ repeated = FALSE
    /\ calls = 0
    /\ StoreIdle
    /\ PackIdle
    /\ BinIdle
    /\ RestIdle

\* one call _set_by_selector(tree, selector, value) (bundle_info.py lines
\* 368 and 397)
LegacySetBySelector ==
    /\ calls < MaxCalls
    /\ \E selector \in LegacySelectors :
       \E r \in {legacy_set_by_selector(tree, selector, TextValue)} :
           /\ tree' = r.tree
           /\ ret' = r.ret
           /\ before' = tree
           /\ lastSel' = selector
    /\ lastVal' = TextValue
    /\ calls' = calls + 1
    /\ UNCHANGED <<lastPath, repeated, storeVars, packVars, binVars, restVars>>

NextLegacy == LegacySetBySelector

SpecLegacy == InitLegacy /\ [][NextLegacy]_vars

\* C24: a call of _set_by_selector never raises, and a call that did not
\* return True left the tree as it was.
C24_LegacySoftFail ==
    calls > 0 =>
        /\ ret \in {"true", "false"}
        /\ ret = "false" => tree = before

\* a call that does not return True leaves the tree as it was, raised or
\* not
LegacyFailureLeavesTree == (calls > 0 /\ ret # "true") => tree = before

----------------------------------------------------------------------------
(* Where patch entries are applied *)

\* bundleSuffix: the path of a container relative to the scanned folder
bundleSuffix(folder_path_, bundle_path_) ==
    PathStr(SubSeq(bundle_path_, Len(PathParts(folder_path_)) + 1,
                   Len(bundle_path_)))

\* what C25 asks of a step of the scan: if set_by_selector returned True
\* for the object, the patches have entries for the bundleSuffix of its
\* container and its path id, and every key the step marks as applied has
\* that suffix and that path id
AppliedWhereAddressed ==
    (/\ pc = "scan"
     /\ obj_i <= Len(bundle)
     /\ set_oks'[obj_i] > set_oks[obj_i])
        => \E suffix \in {bundleSuffix(folder_path, bundle_path)} :
           \E pid \in {FormatInt(bundle[obj_i].path_id)} :
               /\ suffix \in DOMAIN patches
               /\ pid \in DOMAIN patches[suffix]
               /\ \A key \in succeeded' \ succeeded :
                      key[1] = suffix /\ key[2] = pid

\* C25: a patch entry (suffix, pathId, selector) is resolved only against
\* an object whose path id is pathId, in a container whose path relative
\* to the scanned folder is the suffix.
C25_AppliedWhereAddressed == [][AppliedWhereAddressed]_vars

\* the same for folders in which the path of no other container ends
\* with the suffix of a patch
AppliedWhereAddressedInFlatFolder ==
    [][(/\ folder_path = <<"d">>
        /\ <<N_d, <<"s">>, N_x>> \notin DOMAIN fs)
           => AppliedWhereAddressed]_vars

----------------------------------------------------------------------------
(* What the unresolved report leaves out *)

\* the key was set in an object whose write-back did not fail, in a
\* container that bundle.save wrote in this run
WrittenAndSaved(key) ==
    \E a \in applied_at :
        /\ a[1] = key
        /\ <<a[2], a[3]>> \notin skipped
        /\ a[2] \in saved_bundles

\* C27: when a run has printed its report, every patch key that the
\* report does not list was set in an object whose tree save_typetree
\* wrote back, in a container that was saved in this run.
C27_AuditSound ==
    (pc = "idle" /\ reports > 0 /\ ended # <<>>) =>
        \A key \in AllPatchEntries(patches) \ all_patch_entries :
            WrittenAndSaved(key)

\* the same for runs in which no save_typetree and no save of a container
\* failed
AuditSoundWithoutFailure ==
    (pc = "idle" /\ reports > 0 /\ ended # <<>> /\ failed = {} /\ skipped = {}) =>
        \A key \in AllPatchEntries(patches) \ all_patch_entries :
            WrittenAndSaved(key)

----------------------------------------------------------------------------
(* replacing/merge_tool.py: merge_trans_sheet *)

C_ID == <<"I", "D">>
C_Original == <<"O", "r", "i", "g", "i", "n", "a", "l">>
C_Chinese == <<"C", "h", "i", "n", "e", "s", "e">>
C_MTL == <<"M", "T", "L">>
C_Edited == <<"E", "d", "i", "t", "e", "d">>
C_QA1 == <<"Q", "A", " ", "1">>
C_QA2 == <<"Q", "A", " ", "2">>
C_QA3 == <<"Q", "A", " ", "3">>

\* line 34
TRANS_COMMON_HEADER ==
    <<C_ID, C_Original, C_Chinese, C_MTL, C_Edited, C_QA1, C_QA2, C_QA3>>

\* A sheet as pandas reads it: the column names and, for every row, one
\* cell per column; an empty cell is NaN (NoneCell).
DataFrame(columns, rows) == [columns |-> columns, rows |-> rows]

\* lines 279-280: df.columns = [str(c).strip() for c in df.columns]
StripColumns(df) ==
    [df EXCEPT !.columns = [c \in 1..Len(df.columns) |-> Strip(df.columns[c])]]

\* col in df.columns
HasColumn(df, col) == \E c \in 1..Len(df.columns) : df.columns[c] = col

ColumnIndex(df, col) == CHOOSE c \in 1..Len(df.columns) : df.columns[c] = col

\* astype(str) of a cell: NaN becomes the text nan
AsTypeStr(cell) ==
    IF cell.t = "none" THEN TextCell(<<"n", "a", "n">>)
    ELSE TextCell(StrOf(cell))

\* lines 284-285: df['ID'] = df['ID'].astype(str)
IdAsStr(df) ==
    [df EXCEPT !.rows =
        [r \in 1..Len(df.rows) |->
            [df.rows[r] EXCEPT ![ColumnIndex(df, C_ID)] = AsTypeStr(@)]]]

\* normalize_trans_columns(df), lines 272-275: a missing column is filled
\* with "", the columns are put in the order of the header and the others
\* dropped
normalize_trans_columns(df) ==
    DataFrame(TRANS_COMMON_HEADER,
              [r \in 1..Len(df.rows) |->
                  [c \in 1..Len(TRANS_COMMON_HEADER) |->
                      IF HasColumn(df, TRANS_COMMON_HEADER[c])
                      THEN df.rows[r][ColumnIndex(df, TRANS_COMMON_HEADER[c])]
                      ELSE TextCell(<<>>)]])

\* the row pandas fills in for the side that has no row with the ID
NaNRow == [c \in 1..Len(TRANS_COMMON_HEADER) |-> NoneCell]

\* the rows of pd.merge(..., on='ID', how='outer', indicator=True) for one
\* ID: every pairing of the old rows and the new rows that have it
MergedForId(old, new, id) ==
    LET olds == SelectSeq(old.rows, LAMBDA row : row[1].v = id)
        news == SelectSeq(new.rows, LAMBDA row : row[1].v = id)
    IN  IF news = <<>>
        THEN [k \in 1..Len(olds) |->
                 [ID |-> id, old |-> olds[k], new |-> NaNRow,
                  _merge |-> "left_only"]]
        ELSE IF olds = <<>>
        THEN [k \in 1..Len(news) |->
                 [ID |-> id, old |-> NaNRow, new |-> news[k],
                  _merge |-> "right_only"]]
        ELSE [k \in 1..(Len(olds) * Len(news)) |->
                 [ID |-> id,
                  old |-> olds[((k - 1) \div Len(news)) + 1],
                  new |-> news[((k - 1) % Len(news)) + 1],
                  _merge |-> "both"]]

\* line 289: the outer merge, its keys sorted
RECURSIVE MergedRows(_, _, _)
MergedRows(old, new, ids) ==
    IF ids = <<>> THEN <<>>
    ELSE MergedForId(old, new, Head(ids)) \o MergedRows(old, new, Tail(ids))

\* str(x) if pd.notna(x) else "", lines 297-300
NotNaStr(cell) == IF cell.t = "none" THEN TextCell(<<>>) ELSE TextCell(StrOf(cell))

\* x if pd.notna(x) else "", lines 319-321
NotNa(cell) == IF cell.t = "none" THEN TextCell(<<>>) ELSE cell

\* lines 292-323: the row of the result for one row of the merge
FinalRow(row) ==
    [c \in 1..Len(TRANS_COMMON_HEADER) |->
        IF c = 1 THEN TextCell(row.ID)
        ELSE IF c \in {2, 3}
        THEN IF row._merge = "left_only" THEN NotNaStr(row.old[c])
             ELSE NotNaStr(row.new[c])
        ELSE IF row._merge = "right_only" THEN NotNa(row.new[c])
             ELSE NotNa(row.old[c])]

\* merge_trans_sheet(sheet_name, df_old, df_new, diff_records), lines
\* 278-325: the sheet it returns
merge_trans_sheet(old_, new_) ==
    LET old == StripColumns(old_)
        new == StripColumns(new_)
    IN  IF ~HasColumn(old, C_ID) \/ ~HasColumn(new, C_ID) THEN new
        ELSE LET o == normalize_trans_columns(IdAsStr(old))
                 n == normalize_trans_columns(IdAsStr(new))
                 ids == SortedKeys({o.rows[r][1].v : r \in 1..Len(o.rows)}
                                   \cup {n.rows[r][1].v : r \in 1..Len(n.rows)})
                 merged_ == MergedRows(o, n, ids)
             IN  DataFrame(TRANS_COMMON_HEADER,
                           [k \in 1..Len(merged_) |-> FinalRow(merged_[k])])

\* column rows: the common header; its first four columns; the same with
\* blanks around ID; without the ID column; a sheet with no cell at all
H_four == <<C_ID, C_Original, C_Chinese, C_MTL>>
H_padded == <<<<" ">> \o C_ID \o <<" ">>, C_Original, C_Chinese, C_MTL>>
H_noid == <<C_Original, C_Chinese, C_MTL>>

\* a row of a sheet of four columns
TransRow(id, original, mtl) ==
    <<TextCell(id), TextCell(original), NoneCell, mtl>>

TransCells == {NoneCell, TextCell(<<"m">>)}

\* no row, one row, two rows with different IDs in either order
TransRows ==
    {<<>>}
    \cup {<<TransRow(id, original, mtl)>> :
             id \in {<<"1">>, <<"2">>}, original \in {<<"o">>, <<"p">>},
             mtl \in TransCells}
    \cup {<<TransRow(<<"1">>, <<"o">>, TextCell(<<"m">>)),
            TransRow(<<"2">>, <<"p">>, NoneCell)>>,
          <<TransRow(<<"2">>, <<"p">>, NoneCell),
            TransRow(<<"1">>, <<"o">>, TextCell(<<"m">>))>>}

TransSheets ==
    {DataFrame(columns, rows) : columns \in {H_four, H_padded}, rows \in TransRows}
    \cup {DataFrame(H_noid, <<>>),
          DataFrame(H_noid, <<<<TextCell(<<"o">>), NoneCell, TextCell(<<"m">>)>>>>),
          DataFrame(<<>>, <<>>),
          DataFrame(TRANS_COMMON_HEADER,
                    <<<<TextCell(<<"1">>), TextCell(<<"o">>), TextCell(<<"c">>),
                        TextCell(<<"m">>), TextCell(<<"e">>), TextCell(<<"q">>),
                        NoneCell, NumCell(7)>>>>)}

InitTrans ==
    /\ df_old \in TransSheets
    /\ df_new \in TransSheets
    /\ final_df = <<>>
    /\ trans_pc = "start"
    /\ ResolverIdle
    /\ StoreIdle
    /\ PackIdle
    /\ BinIdle
    /\ SheetIdle
    /\ PatchIdle

\* the call of line 367 for a sheet both workbooks have
MergeTransSheet ==
    /\ trans_pc = "start"
    /\ final_df' = merge_trans_sheet(df_old, df_new)
    /\ trans_pc' = "returned"
    /\ UNCHANGED <<df_old, df_new, resolverVars, storeVars, packVars, binVars,
                   sheetVars, patchVars>>

NextTrans == MergeTransSheet

SpecTrans == InitTrans /\ [][NextTrans]_vars

\* the text of a cell of a sheet, by row and column name; nothing for an
\* empty cell or a column the sheet does not have
Field(df, r, col) ==
    LET d == StripColumns(df)
    IN  IF ~HasColumn(d, col) THEN <<>>
        ELSE IF d.rows[r][ColumnIndex(d, col)].t = "none" THEN <<>>
        ELSE StrOf(d.rows[r][ColumnIndex(d, col)])

\* the IDs of a sheet
IdsOf(df) ==
    IF HasColumn(StripColumns(df), C_ID)
    THEN {Field(df, r, C_ID) : r \in 1..Len(df.rows)}
    ELSE {}

TranslationColumns == {C_MTL, C_Edited, C_QA1, C_QA2, C_QA3}

\* every row of the old sheet is in the merged sheet with its MTL, Edited
\* and QA values, and with Original and Chinese of the new sheet if the
\* new sheet has the ID
OldRowsKept ==
    \A r \in 1..Len(df_old.rows) :
        Field(df_old, r, C_ID) \in IdsOf(df_old) =>
            \E k \in 1..Len(final_df.rows) :
                /\ HasColumn(final_df, C_ID)
                /\ Field(final_df, k, C_ID) = Field(df_old, r, C_ID)
                /\ \A col \in TranslationColumns :
                       Field(final_df, k, col) = Field(df_old, r, col)
                /\ \A n \in 1..Len(df_new.rows) :
                       (/\ HasColumn(StripColumns(df_new), C_ID)
                        /\ Field(df_new, n, C_ID) = Field(df_old, r, C_ID))
                           => \A col \in {C_Original, C_Chinese} :
                                  Field(final_df, k, col) = Field(df_new, n, col)

\* every row of the new sheet whose ID the old sheet does not have is in
\* the merged sheet with its values
NewRowsKept ==
    \A n \in 1..Len(df_new.rows) :
        (/\ Field(df_new, n, C_ID) \in IdsOf(df_new)
         /\ Field(df_new, n, C_ID) \notin IdsOf(df_old)) =>
            \E k \in 1..Len(final_df.rows) :
                /\ Field(final_df, k, C_ID) = Field(df_new, n, C_ID)
                /\ \A col \in TranslationColumns \cup {C_Original, C_Chinese} :
                       Field(final_df, k, col) = Field(df_new, n, col)

\* C30: the sheet merge_trans_sheet returns has, for every ID of the old
\* sheet, a row with the MTL, Edited and QA values of the old sheet,
\* whatever the new sheet holds; Original and Chinese of an ID in both
\* sheets are those of the new sheet; the rows of IDs the new sheet alone
\* has are kept.
C30_KeepsTranslations ==
    trans_pc = "returned" => OldRowsKept /\ NewRowsKept

\* the same for two sheets that both have an ID column
KeepsTranslationsWithIdColumns ==
    (/\ trans_pc = "returned"
     /\ HasColumn(StripColumns(df_old), C_ID)
     /\ HasColumn(StripColumns(df_new), C_ID))
        => OldRowsKept /\ NewRowsKept

============================================================================
